---- MODULE Spec2Model ----
(***************************************************************************)
(* A model of bold-brew's package catalog engine: the source documents of  *)
(* the DataProvider, the catalog merge (GetPackages), the disk cache, the  *)
(* query pipeline (search) and the refresh workers of the AppService.      *)
(*                                                                         *)
(* Canonical names are the naturals of Names; their order stands for the   *)
(* byte order Go's < gives strings.  Pointers to the original Formula and  *)
(* Cask records (Package.Formula, Package.Cask) are left out of a Package: *)
(* packages are compared by value.                                         *)
(***************************************************************************)
EXTENDS Integers, Sequences, FiniteSets, TLC

VARIABLES
    \* DataProvider (dataprovider.go:53-68)
    installedFormulae, remoteFormulae, formulaeAnalytics,
    installedCasks, remoteCasks, caskAnalytics,
    allPackages,
    \* runtime.GOOS == "linux"
    isLinux,
    \* position of the merge scenario and the catalog its first call returned
    mstage, firstCatalog,
    \* the cache directory, the clock in minutes, the last fetch and what it
    \* did, and the last bytes a fetch wrote to the cache
    cacheFiles, now, lastFetch, lastWritten,
    \* AppService and the widgets: the displayed list (*s.filteredPackages),
    \* the text of the search field, the active filter, the sort mode and the
    \* message the notifier shows
    filteredPackages, searchText, activeFilter, sortByType, notification,
    \* what Homebrew has installed: the names `brew list` prints
    brewFormulae, brewCasks,
    \* the updates submitted with QueueUpdateDraw and not yet applied
    uiQueue,
    \* the worker goroutines: position and local variables
    pc, local,
    \* history: what each refresh cycle has done, the worker whose update
    \* was submitted last, and whether the control thread has read a catalog
    \* that is no complete catalog
    cycle, lastPublisher, partialRead,
    \* parseBrewfileWithTaps: where the parse is, the number of lines read,
    \* the BrewfileResult, and what the lines read declare
    parseStage, lineNo, result, declared,
    \* AppService, Brewfile support: s.brewfilePath and *s.brewfilePackages,
    \* what the file at s.brewfilePath declares, s.brewfileTaps and
    \* s.installedTaps, the taps `brew tap` lists, the taps the startup
    \* goroutine has to install, the packages of the cache document
    \* tap-packages.json, and the log of the steps Boot and the startup
    \* goroutine have started and finished and of the calls of SetupData,
    \* loadBrewfilePackages and GetTapPackages
    brewfilePath, brewfilePackages,
    brewfile, brewfileTaps, installedTaps, tapped, tapsToInstall, tapCache, steps,
    \* an operation on packages: the operation, the packages its modal has
    \* captured, whether the user has confirmed it and where its goroutine
    \* is; the packages it has executed with their outcomes, the lines it
    \* has sent to the output log, the number of its final notification, and
    \* the rows marked in the table (Table.selectedRows)
    batch, attempted, reports, processed, selectedRows

dpDocs == <<installedFormulae, remoteFormulae, formulaeAnalytics,
            installedCasks, remoteCasks, caskAnalytics>>

mergeVars == <<dpDocs, allPackages, isLinux, mstage, firstCatalog>>

cacheVars == <<cacheFiles, now, lastFetch, lastWritten>>

uiVars == <<filteredPackages, searchText, activeFilter, sortByType, notification>>

workerVars == <<brewFormulae, brewCasks, uiQueue, pc, local, cycle, lastPublisher, partialRead>>

appVars == <<uiVars, workerVars>>

parseVars == <<parseStage, lineNo, result, declared>>

manifestVars ==
    <<brewfilePath, brewfilePackages, brewfile, brewfileTaps, installedTaps, tapped,
      tapsToInstall, tapCache, steps>>

batchVars == <<batch, attempted, reports, processed, selectedRows>>

sessionVars == <<parseVars, manifestVars, batchVars>>

notMergeVars == <<cacheVars, appVars, sessionVars>>

vars == <<mergeVars, cacheVars, appVars, sessionVars>>

----------------------------------------------------------------------------
(* Bounds                                                                  *)

\* Records (formulae, casks, analytics items) loaded into the six documents.
MaxRecords == 3

Names == {1, 2}

----------------------------------------------------------------------------
(* models/package.go, models/formula.go                                    *)

PackageTypeFormula == "formula"
PackageTypeCask == "cask"
PackageTypeFlatpak == "flatpak"

\* A remote formula as decoded from formula.json: LocallyInstalled and
\* LocalPath carry json:"-" and stay at their zero values.
RemoteShapes ==
    { [Requirements |-> <<>>,          Files |-> {}],
      [Requirements |-> <<>>,          Files |-> {"arm64_sonoma"}],
      [Requirements |-> <<>>,          Files |-> {"arm64_sonoma", "x86_64_linux"}],
      [Requirements |-> <<"macos">>,   Files |-> {}],
      [Requirements |-> <<"macos">>,   Files |-> {"x86_64_linux"}],
      [Requirements |-> <<"xcode">>,   Files |-> {"arm64_sonoma"}] }

RemoteFormula(n, shape) ==
    [Name |-> n, FullName |-> "homebrew/core/remote", Description |-> "remote desc",
     Homepage |-> "https://remote", Stable |-> "2.0", Outdated |-> FALSE,
     Installed |-> <<>>, Requirements |-> shape.Requirements,
     Files |-> shape.Files, LocallyInstalled |-> FALSE,
     Analytics90dRank |-> 0, Analytics90dDownloads |-> 0]

\* An installed formula as decoded from `brew info --json=v1 --installed`.
LocalFormula(n, outdated, onRequest) ==
    [Name |-> n, FullName |-> "local/tap/formula", Description |-> "local desc",
     Homepage |-> "https://local", Stable |-> "1.0", Outdated |-> outdated,
     Installed |-> <<onRequest>>, Requirements |-> <<>>,
     Files |-> {}, LocallyInstalled |-> FALSE,
     Analytics90dRank |-> 0, Analytics90dDownloads |-> 0]

RemoteCask(n, names) ==
    [Token |-> n, Name |-> names, Description |-> "remote cask desc",
     Homepage |-> "https://remote-cask", Version |-> "20.0", Outdated |-> FALSE,
     LocallyInstalled |-> FALSE, IsCask |-> FALSE,
     Analytics90dRank |-> 0, Analytics90dDownloads |-> 0]

LocalCask(n, outdated) ==
    [Token |-> n, Name |-> <<"Local App">>, Description |-> "local cask desc",
     Homepage |-> "https://local-cask", Version |-> "10.0", Outdated |-> outdated,
     LocallyInstalled |-> FALSE, IsCask |-> FALSE,
     Analytics90dRank |-> 0, Analytics90dDownloads |-> 0]

\* strconv.Atoi(strings.ReplaceAll(a.Count, ",", "")): the count strings of
\* the analytics tables and the number each converts to (0 on an Atoi error).
Downloads(count) ==
    CASE count = "1,234" -> 1234
      [] count = "56" -> 56
      [] OTHER -> 0

AnalyticsItems ==
    { [Number |-> 0, Count |-> "56"],
      [Number |-> 1, Count |-> "1,234"],
      [Number |-> 2, Count |-> "n/a"] }

NewPackageFromFormula(f) ==
    [Name |-> f.Name, DisplayName |-> f.FullName, Description |-> f.Description,
     Homepage |-> f.Homepage, Version |-> f.Stable,
     LocallyInstalled |-> f.LocallyInstalled, Outdated |-> f.Outdated,
     Type |-> PackageTypeFormula,
     Analytics90dRank |-> f.Analytics90dRank,
     Analytics90dDownloads |-> f.Analytics90dDownloads,
     InstalledOnRequest |-> IF Len(f.Installed) > 0 THEN f.Installed[1] ELSE FALSE]

\* the text of a canonical name, where the code uses the name as a display name
NameText(n) ==
    CASE n = 1 -> "name-1"
      [] n = 2 -> "name-2"
      [] n = 3 -> "name-3"
      [] OTHER -> "name-n"

NewPackageFromCask(c) ==
    [Name |-> c.Token,
     DisplayName |-> IF Len(c.Name) > 0 THEN c.Name[1] ELSE NameText(c.Token),
     Description |-> c.Description,
     Homepage |-> c.Homepage, Version |-> c.Version,
     LocallyInstalled |-> c.LocallyInstalled, Outdated |-> c.Outdated,
     Type |-> PackageTypeCask,
     Analytics90dRank |-> c.Analytics90dRank,
     Analytics90dDownloads |-> c.Analytics90dDownloads,
     InstalledOnRequest |-> TRUE]

----------------------------------------------------------------------------
(* dataprovider.go: the fetchers' stamping                                 *)

\* (*formulae)[i].LocallyInstalled = true (LocalPath is not modelled)
markFormulaeAsInstalled(formulae) ==
    [i \in 1..Len(formulae) |-> [formulae[i] EXCEPT !.LocallyInstalled = TRUE]]

markCasksAsInstalled(casks) ==
    [i \in 1..Len(casks) |-> [casks[i] EXCEPT !.LocallyInstalled = TRUE, !.IsCask = TRUE]]

----------------------------------------------------------------------------
(* dataprovider.go: GetPackages                                            *)

EmptyMap == [x \in {} |-> 0]

Put(m, k, v) == [x \in DOMAIN m \cup {k} |-> IF x = k THEN v ELSE m[x]]

\* strings.Contains(key, "linux") over the bottle keys of the model
IsLinuxKey(key) == key \in {"x86_64_linux", "arm64_linux"}

hasMacosReq(formula) ==
    \E i \in 1..Len(formula.Requirements) : formula.Requirements[i] = "macos"

hasLinuxBottle(formula) == \E key \in formula.Files : IsLinuxKey(key)

\* mutant: the bottle rule also skips a formula that ships no bottle
SkipOnLinux_noBottle(formula) ==
    \/ hasMacosReq(formula)
    \/ ~hasLinuxBottle(formula)

\* the two `continue`s of the remote-formula loop
SkipOnLinux(formula) ==
    \/ hasMacosReq(formula)
    \/ formula.Files # {} /\ ~hasLinuxBottle(formula)

SkipRemoteFormula(linux, formula) == linux /\ SkipOnLinux(formula)

WithAnalytics(pkg, analytics, name) ==
    IF name \in DOMAIN analytics /\ analytics[name].Number > 0
    THEN [pkg EXCEPT !.Analytics90dRank = analytics[name].Number,
                     !.Analytics90dDownloads = Downloads(analytics[name].Count)]
    ELSE pkg

RECURSIVE MergeRemoteFormulae(_, _, _, _)
MergeRemoteFormulae(m, formulae, analytics, linux) ==
    IF formulae = <<>> THEN m
    ELSE LET formula == Head(formulae)
             m2 == IF SkipRemoteFormula(linux, formula) \/ formula.Name \in DOMAIN m
                   THEN m
                   ELSE Put(m, formula.Name,
                            WithAnalytics(NewPackageFromFormula(formula),
                                          analytics, formula.Name))
         IN MergeRemoteFormulae(m2, Tail(formulae), analytics, linux)

\* mutant: an installed formula does not replace an entry already in the map
RECURSIVE MergeInstalledFormulae_ifAbsent(_, _, _)
MergeInstalledFormulae_ifAbsent(m, formulae, analytics) ==
    IF formulae = <<>> THEN m
    ELSE LET formula == Head(formulae)
             m2 == IF formula.Name \in DOMAIN m THEN m
                   ELSE Put(m, formula.Name,
                            WithAnalytics(NewPackageFromFormula(formula),
                                          analytics, formula.Name))
         IN MergeInstalledFormulae_ifAbsent(m2, Tail(formulae), analytics)

RECURSIVE MergeInstalledFormulae(_, _, _)
MergeInstalledFormulae(m, formulae, analytics) ==
    IF formulae = <<>> THEN m
    ELSE LET formula == Head(formulae)
         IN MergeInstalledFormulae(
                Put(m, formula.Name,
                    WithAnalytics(NewPackageFromFormula(formula), analytics, formula.Name)),
                Tail(formulae), analytics)

\* mutant: a remote cask replaces the entry already in the map
RECURSIVE MergeRemoteCasks_overwrite(_, _, _)
MergeRemoteCasks_overwrite(m, casks, analytics) ==
    IF casks = <<>> THEN m
    ELSE LET cask == Head(casks)
         IN MergeRemoteCasks_overwrite(
                Put(m, cask.Token,
                    WithAnalytics(NewPackageFromCask(cask), analytics, cask.Token)),
                Tail(casks), analytics)

RECURSIVE MergeRemoteCasks(_, _, _)
MergeRemoteCasks(m, casks, analytics) ==
    IF casks = <<>> THEN m
    ELSE LET cask == Head(casks)
             m2 == IF cask.Token \in DOMAIN m
                   THEN m
                   ELSE Put(m, cask.Token,
                            WithAnalytics(NewPackageFromCask(cask), analytics, cask.Token))
         IN MergeRemoteCasks(m2, Tail(casks), analytics)

RECURSIVE MergeInstalledCasks(_, _, _)
MergeInstalledCasks(m, casks, analytics) ==
    IF casks = <<>> THEN m
    ELSE LET cask == Head(casks)
         IN MergeInstalledCasks(
                Put(m, cask.Token,
                    WithAnalytics(NewPackageFromCask(cask), analytics, cask.Token)),
                Tail(casks), analytics)

\* the packageMap GetPackages has built when its four loops are over
packageMap(linux, iF, rF, fA, iC, rC, cA) ==
    LET m1 == MergeRemoteFormulae(EmptyMap, rF, fA, linux)
        m2 == MergeInstalledFormulae(m1, iF, fA)
        m3 == IF ~linux THEN MergeRemoteCasks(m2, rC, cA) ELSE m2
    IN MergeInstalledCasks(m3, iC, cA)

\* mutant: the slice is not re-made, the loop appends to what it held
ResetSlice_keep(old) == old

\* *d.allPackages = make([]models.Package, 0, len(packageMap))
ResetSlice(old) == <<>>

\* mutant: the comparison of the sort is the other way round
RECURSIVE Insert_greater(_, _)
Insert_greater(pkg, sorted) ==
    IF sorted = <<>> THEN <<pkg>>
    ELSE IF pkg.Name > Head(sorted).Name THEN <<pkg>> \o sorted
    ELSE <<Head(sorted)>> \o Insert_greater(pkg, Tail(sorted))

\* the place of pkg in a slice sorted with
\* (*d.allPackages)[i].Name < (*d.allPackages)[j].Name (dataprovider.go:671-673)
RECURSIVE Insert(_, _)
Insert(pkg, sorted) ==
    IF sorted = <<>> THEN <<pkg>>
    ELSE IF pkg.Name < Head(sorted).Name THEN <<pkg>> \o sorted
    ELSE <<Head(sorted)>> \o Insert(pkg, Tail(sorted))

\* sort.Slice by Name, for a slice whose names are distinct
RECURSIVE SortByName(_)
SortByName(s) == IF s = <<>> THEN <<>> ELSE Insert(Head(s), SortByName(Tail(s)))

\* the appends of the `for _, pkg := range packageMap` loop, in one of the
\* orders Go's map iteration may take
RECURSIVE AppendAll(_, _)
AppendAll(slice, m) ==
    IF DOMAIN m = {} THEN slice
    ELSE LET k == CHOOSE x \in DOMAIN m : TRUE
         IN AppendAll(Append(slice, m[k]), [x \in DOMAIN m \ {k} |-> m[x]])

\* GetPackages run to its end by one goroutine: `old` is *d.allPackages on entry
GetPackages(old, linux, iF, rF, fA, iC, rC, cA) ==
    SortByName(AppendAll(ResetSlice(old), packageMap(linux, iF, rF, fA, iC, rC, cA)))

\* the packages with the installed flag they carried
Restamp_carried(packages, installedCaskNames, installedFormulaNames) ==
    packages

\* the re-stamping loop of forceRefreshResults (dataprovider.go:826-833) and
\* of loadBrewfilePackages (dataprovider.go:1113-1118, 1207-1211)
Restamp(packages, installedCaskNames, installedFormulaNames) ==
    [i \in 1..Len(packages) |->
        [packages[i] EXCEPT !.LocallyInstalled =
            IF packages[i].Type = PackageTypeCask
            THEN packages[i].Name \in installedCaskNames
            ELSE packages[i].Name \in installedFormulaNames]]

----------------------------------------------------------------------------
(* The disk cache (readCacheFile, writeCacheFile) and the fetcher of the   *)
(* installed formulae.  A document's bytes are the JSON list they encode.  *)

\* minutes the clock runs
MaxTicks == 12

cacheFileInstalled == "installed.json"

installedMaxAge == 10

remoteMaxAge == 1000

NoFile == [exists |-> FALSE, data |-> <<>>, mtime |-> 0]

\* the bytes of the document if it exists and is younger than maxAge
\* minutes, nil (hit = FALSE) otherwise
readCacheFile(files, t, name, maxAge) ==
    IF files[name].exists /\ t - files[name].mtime < maxAge
    THEN [hit |-> TRUE, data |-> files[name].data]
    ELSE [hit |-> FALSE, data |-> <<>>]

\* a failed write is logged and leaves the document as it was
writeCacheFile(files, t, name, bytes, ok) ==
    IF ok THEN [files EXCEPT ![name] = [exists |-> TRUE, data |-> bytes, mtime |-> t]]
    ELSE files

\* what `brew info --json=v1 --installed` does: fails, or prints a list
BrewRuns ==
    { [err |-> TRUE,  output |-> <<>>],
      [err |-> FALSE, output |-> <<>>],
      [err |-> FALSE, output |-> <<LocalFormula(1, FALSE, TRUE)>>],
      [err |-> FALSE, output |-> <<LocalFormula(1, TRUE, TRUE), LocalFormula(2, FALSE, FALSE)>>] }

\* bytes that are no JSON document
Garbage == <<[garbage |-> TRUE]>>

\* json.Unmarshal of a list
Unmarshal(bytes) ==
    [err |-> bytes = Garbage, value |-> IF bytes = Garbage THEN <<>> ELSE bytes]

\* the fetch after a cache miss: brew is run and its output decoded,
\* stamped and written to the cache (dataprovider.go:122-135)
LiveInstalledFormulae(files, t, brew, writeOk) ==
    IF brew.err \/ Unmarshal(brew.output).err
    THEN [formulae |-> <<>>, err |-> TRUE, files |-> files, ran |-> TRUE, wrote |-> FALSE]
    ELSE [formulae |-> markFormulaeAsInstalled(brew.output), err |-> FALSE,
          files |-> writeCacheFile(files, t, cacheFileInstalled, brew.output, writeOk),
          ran |-> TRUE, wrote |-> writeOk]

GetInstalledFormulae_remoteAge(files, t, forceRefresh, dirErr, brew, writeOk) ==
    LET data == readCacheFile(files, t, cacheFileInstalled, remoteMaxAge)
    IN IF dirErr
       THEN [formulae |-> <<>>, err |-> TRUE, files |-> files, ran |-> FALSE, wrote |-> FALSE]
       ELSE IF ~forceRefresh /\ data.hit /\ ~Unmarshal(data.data).err
       THEN [formulae |-> markFormulaeAsInstalled(data.data), err |-> FALSE,
             files |-> files, ran |-> FALSE, wrote |-> FALSE]
       ELSE LiveInstalledFormulae(files, t, brew, writeOk)

\* DataProvider.GetInstalledFormulae; dirErr is the failure of
\* ensureCacheDir (dataprovider.go:107-136)
GetInstalledFormulae(files, t, forceRefresh, dirErr, brew, writeOk) ==
    LET data == readCacheFile(files, t, cacheFileInstalled, installedMaxAge)
    IN IF dirErr
       THEN [formulae |-> <<>>, err |-> TRUE, files |-> files, ran |-> FALSE, wrote |-> FALSE]
       ELSE IF ~forceRefresh /\ data.hit /\ ~Unmarshal(data.data).err
       THEN [formulae |-> markFormulaeAsInstalled(data.data), err |-> FALSE,
             files |-> files, ran |-> FALSE, wrote |-> FALSE]
       ELSE LiveInstalledFormulae(files, t, brew, writeOk)

\* the first step of SetupData, the cache directory being there
\* (dataprovider.go:537-541)
FetchInstalledFormulae ==
    \E forceRefresh \in BOOLEAN, brew \in BrewRuns, writeOk \in BOOLEAN :
        LET r == GetInstalledFormulae(cacheFiles, now, forceRefresh, FALSE, brew, writeOk) IN
        /\ mstage = "cache"
        /\ cacheFiles' = r.files
        /\ installedFormulae' = IF r.err THEN installedFormulae ELSE r.formulae
        /\ lastFetch' = [done |-> TRUE, forceRefresh |-> forceRefresh,
                         written |-> lastWritten.any, age |-> now - lastWritten.at,
                         ran |-> r.ran, err |-> r.err, formulae |-> r.formulae]
        /\ lastWritten' = IF r.wrote THEN [any |-> TRUE, bytes |-> brew.output, at |-> now]
                          ELSE lastWritten
        /\ UNCHANGED <<remoteFormulae, formulaeAnalytics, installedCasks, remoteCasks,
                       caskAnalytics, allPackages, isLinux, mstage, firstCatalog, now>>
        /\ UNCHANGED <<appVars, sessionVars>>

\* a minute passes
Tick ==
    /\ mstage = "cache" /\ now < MaxTicks
    /\ now' = now + 1
    /\ UNCHANGED <<mergeVars, cacheFiles, lastFetch, lastWritten, appVars, sessionVars>>

Workers == {"startup", "install"}

NoLocals ==
    [todo |-> {}, casks |-> {}, formulae |-> {}, i |-> 0, n |-> 0, info |-> 0, cask |-> FALSE]

\* the history of a refresh cycle: whether SetupData has fetched both the
\* installed formulae and the installed casks, whether a fetch failed before
\* that, whether GetPackages has run and had both to merge, whether the
\* installed names are listed, whether the re-query is submitted, and the
\* catalog the cycle builds from what it merged and listed
NoCycle ==
    [installedFetched |-> FALSE, fetchFailed |-> FALSE,
     merged |-> FALSE, installedMerged |-> FALSE,
     stamped |-> FALSE, submitted |-> FALSE, product |-> <<>>]

\* no worker goroutine has been started
WorkersUnused ==
    /\ brewFormulae = {} /\ brewCasks = {}
    /\ uiQueue = <<>>
    /\ pc = [w \in Workers |-> "idle"]
    /\ local = [w \in Workers |-> NoLocals]
    /\ cycle = [w \in Workers |-> NoCycle]
    /\ lastPublisher = "none"
    /\ partialRead = FALSE

\* NewAppService (part_003:57-84)
AppUnused ==
    /\ filteredPackages = <<>>
    /\ searchText = ""
    /\ activeFilter = "FilterNone"
    /\ sortByType = FALSE
    /\ notification = ""
    /\ WorkersUnused

CacheUnused ==
    /\ cacheFiles = [name \in {cacheFileInstalled} |-> NoFile]
    /\ now = 0
    /\ lastFetch = [done |-> FALSE, forceRefresh |-> FALSE, written |-> FALSE, age |-> 0,
                    ran |-> FALSE, err |-> FALSE, formulae |-> <<>>]
    /\ lastWritten = [any |-> FALSE, bytes |-> <<>>, at |-> 0]

\* no Brewfile is parsed
ParseUnused ==
    /\ parseStage = "unused" /\ lineNo = 0
    /\ result = [Taps |-> <<>>, Packages |-> <<>>]
    /\ declared = [Taps |-> <<>>, Packages |-> <<>>]

\* NewAppService: no Brewfile (part_003:72-73)
TapsUnused ==
    /\ brewfile = [Taps |-> <<>>, Packages |-> <<>>]
    /\ brewfileTaps = <<>> /\ installedTaps = <<>> /\ tapped = {}
    /\ tapsToInstall = <<>> /\ tapCache = <<>> /\ steps = <<>>

ManifestUnused == brewfilePath = "" /\ brewfilePackages = <<>> /\ TapsUnused

NoBatch ==
    [op |-> "none", install |-> FALSE, packages |-> <<>>, i |-> 0, stage |-> "idle",
     confirmed |-> FALSE, shared |-> FALSE]

\* no batch operation is started
BatchUnused ==
    /\ batch = NoBatch
    /\ attempted = <<>> /\ reports = <<>> /\ processed = -1
    /\ selectedRows = {}

SessionUnused == ParseUnused /\ ManifestUnused /\ BatchUnused

InitCache ==
    /\ installedFormulae = <<>> /\ remoteFormulae = <<>> /\ formulaeAnalytics = EmptyMap
    /\ installedCasks = <<>> /\ remoteCasks = <<>> /\ caskAnalytics = EmptyMap
    /\ allPackages = <<>>
    /\ isLinux = FALSE
    /\ mstage = "cache"
    /\ firstCatalog = <<>>
    /\ CacheUnused
    /\ SessionUnused
    /\ AppUnused

NextCache == FetchInstalledFormulae \/ Tick

SpecCache == InitCache /\ [][NextCache]_vars

----------------------------------------------------------------------------
(* The query pipeline: AppService.search and applyFilter.  The texts that  *)
(* are searched are spelled out as sequences of characters.                *)

FilterNone == "FilterNone"
FilterInstalled == "FilterInstalled"
FilterOutdated == "FilterOutdated"
FilterLeaves == "FilterLeaves"
FilterCasks == "FilterCasks"

FilterTypes == {FilterInstalled, FilterOutdated, FilterLeaves, FilterCasks}

\* the characters of the texts of the model
Chars(text) ==
    CASE text = "name-1" -> <<"n", "a", "m", "e", "-", "1">>
      [] text = "name-2" -> <<"n", "a", "m", "e", "-", "2">>
      [] text = "name-3" -> <<"n", "a", "m", "e", "-", "3">>
      [] text = "name-n" -> <<"n", "a", "m", "e", "-", "n">>
      [] text = "remote desc" -> <<"r", "e", "m", "o", "t", "e", " ", "d", "e", "s", "c">>
      [] text = "local desc" -> <<"l", "o", "c", "a", "l", " ", "d", "e", "s", "c">>
      [] text = "remote cask desc" ->
            <<"r", "e", "m", "o", "t", "e", " ", "c", "a", "s", "k", " ", "d", "e", "s", "c">>
      [] text = "local cask desc" ->
            <<"l", "o", "c", "a", "l", " ", "c", "a", "s", "k", " ", "d", "e", "s", "c">>
      [] text = "(unable to load package info)" ->
            <<"(", "u", "n", "a", "b", "l", "e", " ", "t", "o", " ", "l", "o", "a", "d", " ",
              "p", "a", "c", "k", "a", "g", "e", " ", "i", "n", "f", "o", ")">>
      [] text = "NAME" -> <<"N", "A", "M", "E">>
      [] text = "E-1" -> <<"E", "-", "1">>
      [] text = "Cask" -> <<"C", "a", "s", "k">>
      [] OTHER -> <<>>

UpperCase == <<"A", "C", "E", "M", "N">>
LowerCase == <<"a", "c", "e", "m", "n">>

\* strings.ToLower on one character and on a text
ToLowerChar(c) ==
    IF \E i \in 1..Len(UpperCase) : UpperCase[i] = c
    THEN LowerCase[CHOOSE i \in 1..Len(UpperCase) : UpperCase[i] = c]
    ELSE c

ToLower(chars) == [i \in 1..Len(chars) |-> ToLowerChar(chars[i])]

\* strings.Contains
Contains(s, substr) ==
    \E i \in 0..(Len(s) - Len(substr)) : SubSeq(s, i + 1, i + Len(substr)) = substr

\* mutant: the outdated filter does not ask for the installed flag
applyFilter_outdated(sourceList, filter) ==
    IF filter = FilterNone THEN sourceList
    ELSE SelectSeq(sourceList, LAMBDA info :
            CASE filter = FilterInstalled -> info.LocallyInstalled
              [] filter = FilterOutdated -> info.Outdated
              [] filter = FilterLeaves -> info.LocallyInstalled /\ info.InstalledOnRequest
              [] filter = FilterCasks -> info.Type = PackageTypeCask
              [] OTHER -> FALSE)

\* AppService.applyFilter (dataprovider.go:786-809)
applyFilter(sourceList, filter) ==
    IF filter = FilterNone THEN sourceList
    ELSE SelectSeq(sourceList, LAMBDA info :
            CASE filter = FilterInstalled -> info.LocallyInstalled
              [] filter = FilterOutdated -> info.LocallyInstalled /\ info.Outdated
              [] filter = FilterLeaves -> info.LocallyInstalled /\ info.InstalledOnRequest
              [] filter = FilterCasks -> info.Type = PackageTypeCask
              [] OTHER -> FALSE)

\* mutant: the search looks at the names only
Matches_nameOnly(info, searchTextLower) ==
    Contains(ToLower(Chars(NameText(info.Name))), searchTextLower)

\* the condition of the search loop (dataprovider.go:739-740)
Matches(info, searchTextLower) ==
    \/ Contains(ToLower(Chars(NameText(info.Name))), searchTextLower)
    \/ Contains(ToLower(Chars(info.Description)), searchTextLower)

\* the search loop (dataprovider.go:738-746): matching packages, the first
\* of every name
RECURSIVE MatchList(_, _, _)
MatchList(sourceList, searchTextLower, uniquePackages) ==
    IF sourceList = <<>> THEN <<>>
    ELSE LET info == Head(sourceList) IN
         IF Matches(info, searchTextLower) /\ info.Name \notin uniquePackages
         THEN <<info>> \o MatchList(Tail(sourceList), searchTextLower,
                                    uniquePackages \cup {info.Name})
         ELSE MatchList(Tail(sourceList), searchTextLower, uniquePackages)

\* the comparator of the rank sort (dataprovider.go:750-758, 770-778)
RankLess_plain(a, b) == a.Analytics90dRank < b.Analytics90dRank

RankLess(a, b) ==
    IF a.Analytics90dRank = 0 THEN FALSE
    ELSE IF b.Analytics90dRank = 0 THEN TRUE
    ELSE a.Analytics90dRank < b.Analytics90dRank

\* mutant: the sort by type compares the kinds only
TypeLess_kindOnly(a, b) ==
    (a.Type = PackageTypeCask /\ b.Type # PackageTypeCask)
    \/ (a.Type = PackageTypeFlatpak /\ b.Type = PackageTypeFormula)

\* the comparator of the sort by type (dataprovider.go:762-767); canonical
\* names are lower case
TypeLess(a, b) ==
    IF a.Type # b.Type
    THEN (a.Type = PackageTypeCask /\ b.Type # PackageTypeCask)
         \/ (a.Type = PackageTypeFlatpak /\ b.Type = PackageTypeFormula)
    ELSE a.Name < b.Name

\* the orders of n elements
Orders(n) ==
    {p \in [1..n -> 1..n] : \A i, j \in 1..n : i # j => p[i] # p[j]}

OrdersUpTo4 == [n \in 0..4 |-> Orders(n)]

Reordered(list) ==
    LET n == Len(list)
    IN {[i \in 1..n |-> list[p[i]]] : p \in IF n <= 4 THEN OrdersUpTo4[n] ELSE Orders(n)}

\* sort.Slice is not stable: any order of the list that the comparator
\* accepts can come out
SortByRank(list) ==
    {s \in Reordered(list) : \A i, j \in 1..Len(s) : i < j => ~RankLess(s[j], s[i])}

SortByType(list) ==
    {s \in Reordered(list) : \A i, j \in 1..Len(s) : i < j => ~TypeLess(s[j], s[i])}

\* AppService.search (dataprovider.go:719-783): the lists it can store in
\* *s.filteredPackages.  The final sort is given one of the orders the rank
\* sort of the matches can leave; every such order holds the same packages,
\* and the orders a sort can return depend on the packages only.
search(packages, filter, text, byType) ==
    LET sourceList == applyFilter(packages, filter)
        matched == IF text = "" THEN {sourceList}
                   ELSE SortByRank(MatchList(sourceList, ToLower(Chars(text)), {}))
        filteredList == CHOOSE l \in matched : TRUE
    IN IF byType THEN SortByType(filteredList)
       ELSE IF text # "" THEN SortByRank(filteredList)
       ELSE matched

\* *s.packages after search: with no filter and an empty search text
\* filteredList is the slice *s.packages itself, and the sort by type sorts
\* it in place (dataprovider.go:723-733, 756-762)
sourceAfterSearch(packages, filter, text, byType, filteredList) ==
    IF filter = FilterNone /\ text = "" /\ byType THEN filteredList ELSE packages

----------------------------------------------------------------------------
(* The query scenario: the catalog is the one Boot merges from documents   *)
(* of MaxCatalog names with popularity ranks of QueryRanks; then the user  *)
(* types search texts and toggles the filters and the sort mode.           *)

MaxCatalog == 3

QueryRanks == {0, 2, 5}

QueryKinds == {"installed formula", "remote cask"}

SearchTexts == {"", "NAME", "E-1", "Cask"}

NameSeq == [i \in 1..MaxCatalog |-> i]

RankItem(rank) == [Number |-> rank, Count |-> "56"]

\* the names of one kind, in order, as records built by Make
NamesOfKind(kind, k) == SelectSeq(NameSeq, LAMBDA n : kind[n] = k)

InitQuery ==
    \E kind \in [1..MaxCatalog -> QueryKinds], rank \in [1..MaxCatalog -> QueryRanks] :
        LET inst == NamesOfKind(kind, "installed formula")
            form == SelectSeq(NameSeq, LAMBDA n : kind[n] # "remote cask")
            cask == NamesOfKind(kind, "remote cask")
        IN
        /\ installedFormulae =
               markFormulaeAsInstalled([i \in 1..Len(inst) |-> LocalFormula(inst[i], FALSE, TRUE)])
        /\ remoteFormulae = [i \in 1..Len(form) |-> RemoteFormula(form[i], [Requirements |-> <<>>, Files |-> {}])]
        /\ formulaeAnalytics = [n \in {form[i] : i \in 1..Len(form)} |-> RankItem(rank[n])]
        /\ installedCasks = <<>>
        /\ remoteCasks = [i \in 1..Len(cask) |-> RemoteCask(cask[i], <<>>)]
        /\ caskAnalytics = [n \in {cask[i] : i \in 1..Len(cask)} |-> RankItem(rank[n])]
        /\ isLinux = FALSE
        /\ mstage = "query"
        /\ firstCatalog = <<>>
        /\ CacheUnused
        /\ SessionUnused
        \* Boot (part_003:119-120)
        /\ allPackages = GetPackages(<<>>, isLinux, installedFormulae, remoteFormulae,
                             formulaeAnalytics, installedCasks, remoteCasks, caskAnalytics)
        /\ filteredPackages = allPackages
        /\ searchText = ""
        /\ activeFilter = FilterNone
        /\ sortByType = FALSE
        /\ notification = ""
        /\ WorkersUnused

\* changedFunc of the search field (part_003:202-204)
changedFunc ==
    \E text \in SearchTexts :
        /\ searchText' = text
        /\ filteredPackages' \in search(allPackages, activeFilter, text, sortByType)
        /\ allPackages' = sourceAfterSearch(allPackages, activeFilter, text, sortByType,
                                            filteredPackages')
        /\ UNCHANGED <<dpDocs, isLinux, mstage, firstCatalog, cacheVars, sessionVars,
                       workerVars, activeFilter, sortByType, notification>>

\* the toggle of handleFilterEvent without its turning off
toggleFilter_set(active, filterType) == filterType

\* the toggle of handleFilterEvent: the active filter is turned off, any
\* other filter replaces the active one (input.go:272-276)
toggleFilter(active, filterType) ==
    IF active = filterType THEN FilterNone ELSE filterType

\* InputService.handleFilterEvent (input.go:270-281)
handleFilterEvent ==
    \E filterType \in FilterTypes :
        /\ activeFilter' = toggleFilter(activeFilter, filterType)
        /\ filteredPackages' \in search(allPackages, activeFilter', searchText, sortByType)
        /\ allPackages' = sourceAfterSearch(allPackages, activeFilter', searchText, sortByType,
                                            filteredPackages')
        /\ UNCHANGED <<dpDocs, isLinux, mstage, firstCatalog, cacheVars, sessionVars,
                       workerVars, searchText, sortByType, notification>>

\* InputService.handleSortTypeEvent (input.go:615-623)
handleSortTypeEvent ==
    /\ sortByType' = ~sortByType
    /\ filteredPackages' \in search(allPackages, activeFilter, searchText, sortByType')
    /\ allPackages' = sourceAfterSearch(allPackages, activeFilter, searchText, sortByType',
                                        filteredPackages')
    /\ notification' = IF sortByType' THEN "Sorting by Type" ELSE "Sorting by Name (Default)"
    /\ UNCHANGED <<dpDocs, isLinux, mstage, firstCatalog, cacheVars, sessionVars, workerVars,
                   searchText, activeFilter>>

NextQuery == changedFunc \/ handleFilterEvent \/ handleSortTypeEvent

SpecQuery == InitQuery /\ [][NextQuery]_vars

----------------------------------------------------------------------------
(* The filters.  The catalog holds one or two packages of either kind      *)
(* with any installed, outdated and installed-on-request flags, in either  *)
(* order of their names; the search field is empty and the list is not     *)
(* sorted by type, so that the list shown is the one applyFilter returns.  *)

\* models.Package with the flags given (package.go)
FlaggedPackage(name, type, flags) ==
    [Name |-> name, DisplayName |-> NameText(name), Description |-> "desc",
     Homepage |-> "", Version |-> "1.0",
     LocallyInstalled |-> flags[1], Outdated |-> flags[2], InstalledOnRequest |-> flags[3],
     Type |-> type, Analytics90dRank |-> 0, Analytics90dDownloads |-> 0]

PackageFlags == BOOLEAN \X BOOLEAN \X BOOLEAN

PackageKinds == {PackageTypeFormula, PackageTypeCask}

InitFilter ==
    \E first \in Names, both \in BOOLEAN, kind \in [Names -> PackageKinds],
       flags \in [Names -> PackageFlags] :
        LET second == CHOOSE n \in Names : n # first
            names == IF both THEN <<first, second>> ELSE <<first>>
        IN
        /\ installedFormulae = <<>> /\ remoteFormulae = <<>> /\ formulaeAnalytics = EmptyMap
        /\ installedCasks = <<>> /\ remoteCasks = <<>> /\ caskAnalytics = EmptyMap
        /\ isLinux = FALSE
        /\ mstage = "filter"
        /\ firstCatalog = <<>>
        /\ CacheUnused
        /\ SessionUnused
        /\ allPackages = [i \in 1..Len(names) |->
                             FlaggedPackage(names[i], kind[names[i]], flags[names[i]])]
        /\ filteredPackages = allPackages
        /\ searchText = ""
        /\ activeFilter = FilterNone
        /\ sortByType = FALSE
        /\ notification = ""
        /\ WorkersUnused

NextFilter == handleFilterEvent

SpecFilter == InitFilter /\ [][NextFilter]_vars

----------------------------------------------------------------------------
(* The refresh workers and the control thread.  The application runs on    *)
(* macOS without a Brewfile.  The startup goroutine of BuildApp runs       *)
(* updateHomeBrew and then forceRefreshResults; the goroutine of           *)
(* handleInstallPackageEvent installs the package of the selected row and  *)
(* then runs forceRefreshResults.  Each goroutine runs once.  A worker     *)
(* step is one access to the state the goroutines share.                   *)

AllNames == <<1, 2, 3>>

SortedNames(S) == SelectSeq(AllNames, LAMBDA n : n \in S)

\* the documents the API serves
RemoteFormulaeDoc == <<RemoteFormula(1, [Requirements |-> <<>>, Files |-> {}])>>

RemoteCasksDoc == <<RemoteCask(2, <<>>)>>

FormulaAnalyticsDoc == [n \in {1} |-> [Number |-> 1, Count |-> "1,234"]]

CaskAnalyticsDoc == [n \in {2} |-> [Number |-> 2, Count |-> "56"]]

\* what `brew info --installed` prints when the formulae of names are
\* installed, stamped by the fetcher
InstalledFormulaeDoc(names) ==
    LET s == SortedNames(names)
    IN markFormulaeAsInstalled([i \in 1..Len(s) |-> LocalFormula(s[i], FALSE, TRUE)])

InstalledCasksDoc(names) ==
    LET s == SortedNames(names)
    IN markCasksAsInstalled([i \in 1..Len(s) |-> LocalCask(s[i], FALSE)])

\* the catalog Boot merges (part_003:119)
BootCatalog ==
    GetPackages(<<>>, FALSE, <<>>, RemoteFormulaeDoc, FormulaAnalyticsDoc,
                <<>>, RemoteCasksDoc, CaskAnalyticsDoc)

\* an index out of range ends the program
Running == \A w \in Workers : pc[w] # "panic"

Notify(text) == [op |-> "notify", text |-> text, by |-> "none"]

\* the closure forceRefreshResults submits (dataprovider.go:837-839)
Requery(w) == [op |-> "search", text |-> "", by |-> w]

InitApp ==
    /\ installedFormulae = <<>> /\ installedCasks = <<>>
    /\ remoteFormulae = RemoteFormulaeDoc /\ formulaeAnalytics = FormulaAnalyticsDoc
    /\ remoteCasks = RemoteCasksDoc /\ caskAnalytics = CaskAnalyticsDoc
    /\ isLinux = FALSE
    /\ allPackages = BootCatalog
    /\ mstage = "app"
    /\ firstCatalog = <<>>
    /\ CacheUnused
    /\ SessionUnused
    /\ filteredPackages = allPackages
    /\ searchText = ""
    /\ activeFilter = FilterNone
    /\ sortByType = FALSE
    /\ notification = ""
    /\ brewFormulae = {} /\ brewCasks = {}
    /\ uiQueue = <<>>
    /\ pc = [w \in Workers |-> IF w = "startup" THEN "updateHomeBrew" ELSE "idle"]
    /\ local = [w \in Workers |-> NoLocals]
    /\ cycle = [w \in Workers |-> NoCycle]
    /\ lastPublisher = "none"
    /\ partialRead = FALSE

\* updateHomeBrew: the first notification (part_003:138-140)
updateHomeBrew(w) ==
    /\ Running /\ pc[w] = "updateHomeBrew"
    /\ uiQueue' = Append(uiQueue, Notify("Updating Homebrew formulae..."))
    /\ pc' = [pc EXCEPT ![w] = "UpdateHomebrew"]
    /\ UNCHANGED <<mergeVars, cacheVars, sessionVars, uiVars, brewFormulae, brewCasks, local, cycle,
                   lastPublisher, partialRead>>

\* updateHomeBrew: `brew update` and the notification of its outcome; on
\* success forceRefreshResults follows (part_003:141-151)
UpdateHomebrew(w) ==
    \E err \in BOOLEAN :
        /\ Running /\ pc[w] = "UpdateHomebrew"
        /\ uiQueue' = Append(uiQueue,
               Notify(IF err THEN "Could not update Homebrew formulae"
                      ELSE "Homebrew formulae updated successfully"))
        /\ pc' = [pc EXCEPT ![w] = IF err THEN "done" ELSE "SetupData"]
        /\ UNCHANGED <<mergeVars, cacheVars, sessionVars, uiVars, brewFormulae, brewCasks, local, cycle,
                       lastPublisher, partialRead>>

FetchOrder ==
    <<"GetInstalledFormulae", "GetRemoteFormulae", "GetFormulaeAnalytics",
      "GetInstalledCasks", "GetRemoteCasks", "GetCaskAnalytics">>

\* SetupData(true) fetches the six documents in order and returns at the
\* first fetch that fails, the fetch number failAt; no fetch fails when
\* failAt is past the last (dataprovider.go:536-580)
FetchedSources_noCasks(failAt) ==
    {FetchOrder[k] : k \in 1..(failAt - 1)} \ {"GetInstalledCasks"}

FetchedSources(failAt) == {FetchOrder[k] : k \in 1..(failAt - 1)}

\* _ = s.dataProvider.SetupData(true): the documents fetched are assigned,
\* the error is dropped (dataprovider.go:814)
SetupData(w) ==
    \E failAt \in 1..(Len(FetchOrder) + 1) :
        LET got == FetchedSources(failAt) IN
        /\ Running /\ pc[w] = "SetupData"
        /\ installedFormulae' = IF "GetInstalledFormulae" \in got
                                THEN InstalledFormulaeDoc(brewFormulae) ELSE installedFormulae
        /\ remoteFormulae' = IF "GetRemoteFormulae" \in got THEN RemoteFormulaeDoc
                             ELSE remoteFormulae
        /\ formulaeAnalytics' = IF "GetFormulaeAnalytics" \in got THEN FormulaAnalyticsDoc
                                ELSE formulaeAnalytics
        /\ installedCasks' = IF "GetInstalledCasks" \in got
                             THEN InstalledCasksDoc(brewCasks) ELSE installedCasks
        /\ remoteCasks' = IF "GetRemoteCasks" \in got THEN RemoteCasksDoc ELSE remoteCasks
        /\ caskAnalytics' = IF "GetCaskAnalytics" \in got THEN CaskAnalyticsDoc
                            ELSE caskAnalytics
        /\ pc' = [pc EXCEPT ![w] = "GetPackages"]
        /\ cycle' = [cycle EXCEPT ![w] =
               [@ EXCEPT !.installedFetched =
                             {"GetInstalledFormulae", "GetInstalledCasks"} \subseteq got,
                         !.fetchFailed =
                             /\ failAt <= Len(FetchOrder)
                             /\ FetchOrder[failAt] \in {"GetInstalledFormulae",
                                    "GetRemoteFormulae", "GetFormulaeAnalytics",
                                    "GetInstalledCasks"}]]
        /\ UNCHANGED <<allPackages, isLinux, mstage, firstCatalog, cacheVars, sessionVars, uiVars,
                       brewFormulae, brewCasks, uiQueue, local, lastPublisher, partialRead>>

\* GetPackages: the map is built from the six documents and the shared
\* slice is re-made (dataprovider.go:584-666)
GetPackages_make(w) ==
    LET m == packageMap(isLinux, installedFormulae, remoteFormulae, formulaeAnalytics,
                        installedCasks, remoteCasks, caskAnalytics)
        values == {m[name] : name \in DOMAIN m}
    IN
    /\ Running /\ pc[w] = "GetPackages"
    /\ allPackages' = ResetSlice(allPackages)
    /\ local' = [local EXCEPT ![w].todo = values]
    /\ pc' = [pc EXCEPT ![w] = IF values = {} THEN "sort" ELSE "append"]
    /\ cycle' = [cycle EXCEPT ![w] =
           [@ EXCEPT !.merged = TRUE,
                     !.installedMerged = cycle[w].installedFetched,
                     !.product = SortByName(AppendAll(<<>>, m))]]
    /\ UNCHANGED <<dpDocs, isLinux, mstage, firstCatalog, cacheVars, sessionVars, uiVars,
                   brewFormulae, brewCasks, uiQueue, lastPublisher, partialRead>>

\* GetPackages: one append of the loop over the map, whose order is not
\* defined (dataprovider.go:667-669)
GetPackages_append(w) ==
    \E pkg \in local[w].todo :
        /\ Running /\ pc[w] = "append"
        /\ allPackages' = Append(allPackages, pkg)
        /\ local' = [local EXCEPT ![w].todo = @ \ {pkg}]
        /\ pc' = [pc EXCEPT ![w] = IF local[w].todo = {pkg} THEN "sort" ELSE "append"]
        /\ UNCHANGED <<dpDocs, isLinux, mstage, firstCatalog, cacheVars, sessionVars, uiVars,
                       brewFormulae, brewCasks, uiQueue, cycle, lastPublisher, partialRead>>

\* the orders sort.Slice by Name can leave
SortedByName(list) ==
    {s \in Reordered(list) : \A i, j \in 1..Len(s) : i < j => ~(s[j].Name < s[i].Name)}

\* GetPackages: the sort in place (dataprovider.go:671-673)
GetPackages_sort(w) ==
    /\ Running /\ pc[w] = "sort"
    /\ allPackages' \in SortedByName(allPackages)
    /\ pc' = [pc EXCEPT ![w] = "FetchInstalledNames"]
    /\ UNCHANGED <<dpDocs, isLinux, mstage, firstCatalog, cacheVars, sessionVars, uiVars,
                   brewFormulae, brewCasks, uiQueue, local, cycle, lastPublisher, partialRead>>

\* FetchInstalledCaskNames and FetchInstalledFormulaNames: `brew list`, an
\* empty map when it fails (dataprovider.go:679-704, 824-825)
FetchInstalledNames(w) ==
    \E caskErr \in BOOLEAN, formulaErr \in BOOLEAN :
        LET casks == IF caskErr THEN {} ELSE brewCasks
            formulae == IF formulaErr THEN {} ELSE brewFormulae
        IN
        /\ Running /\ pc[w] = "FetchInstalledNames"
        /\ local' = [local EXCEPT ![w].casks = casks, ![w].formulae = formulae, ![w].i = 0]
        /\ pc' = [pc EXCEPT ![w] = "restamp"]
        /\ cycle' = [cycle EXCEPT ![w] =
               [@ EXCEPT !.stamped = TRUE,
                         !.product = Restamp(cycle[w].product, casks, formulae)]]
        /\ UNCHANGED <<mergeVars, cacheVars, sessionVars, uiVars, brewFormulae, brewCasks, uiQueue,
                       lastPublisher, partialRead>>

\* one iteration of the re-stamping loop; the range is evaluated when the
\* loop starts (i = 0), the element is indexed in the slice as it is now;
\* the locals of the goroutine are dead when the loop ends
\* (dataprovider.go:826-833)
restamp(w) ==
    LET n == IF local[w].i = 0 THEN Len(allPackages) ELSE local[w].n
        i == IF local[w].i = 0 THEN 1 ELSE local[w].i
    IN
    /\ Running /\ pc[w] = "restamp"
    /\ IF n = 0
       THEN /\ pc' = [pc EXCEPT ![w] = "copy"]
            /\ local' = [local EXCEPT ![w] = NoLocals]
            /\ UNCHANGED allPackages
       ELSE IF i > Len(allPackages)
       THEN /\ pc' = [pc EXCEPT ![w] = "panic"]
            /\ UNCHANGED <<allPackages, local>>
       ELSE /\ allPackages' = [allPackages EXCEPT ![i] =
                   Restamp(<<allPackages[i]>>, local[w].casks, local[w].formulae)[1]]
            /\ local' = [local EXCEPT ![w] =
                   IF i = n THEN NoLocals ELSE [@ EXCEPT !.n = n, !.i = i + 1]]
            /\ pc' = [pc EXCEPT ![w] = IF i = n THEN "copy" ELSE "restamp"]
    /\ UNCHANGED <<dpDocs, isLinux, mstage, firstCatalog, cacheVars, sessionVars, uiVars,
                   brewFormulae, brewCasks, uiQueue, cycle, lastPublisher, partialRead>>

\* *s.filteredPackages = *s.packages (dataprovider.go:834)
copyFiltered(w) ==
    /\ Running /\ pc[w] = "copy"
    /\ filteredPackages' = allPackages
    /\ pc' = [pc EXCEPT ![w] = "QueueUpdateDraw"]
    /\ UNCHANGED <<mergeVars, cacheVars, sessionVars, searchText, activeFilter, sortByType, notification,
                   brewFormulae, brewCasks, uiQueue, local, cycle, lastPublisher, partialRead>>

\* s.app.QueueUpdateDraw(search) (dataprovider.go:837-839)
QueueUpdateDraw(w) ==
    /\ Running /\ pc[w] = "QueueUpdateDraw"
    /\ uiQueue' = Append(uiQueue, Requery(w))
    /\ pc' = [pc EXCEPT ![w] = "done"]
    /\ cycle' = [cycle EXCEPT ![w].submitted = TRUE]
    /\ lastPublisher' = w
    /\ UNCHANGED <<mergeVars, cacheVars, sessionVars, uiVars, brewFormulae, brewCasks, local, partialRead>>

\* handleInstallPackageEvent on the control thread: the user confirms the
\* installation of the package of a row and the goroutine is started
\* (input.go:355-382)
handleInstallPackageEvent ==
    \E row \in 1..Len(filteredPackages) :
        /\ Running /\ pc["install"] = "idle"
        /\ local' = [local EXCEPT !["install"].info = filteredPackages[row].Name,
                                  !["install"].cask = filteredPackages[row].Type = PackageTypeCask]
        /\ pc' = [pc EXCEPT !["install"] = "ShowWarning"]
        /\ UNCHANGED <<mergeVars, cacheVars, sessionVars, uiVars, brewFormulae, brewCasks, uiQueue, cycle,
                       lastPublisher, partialRead>>

\* the goroutine: s.layout.GetNotifier().ShowWarning (input.go:373)
ShowWarning(w) ==
    /\ Running /\ pc[w] = "ShowWarning"
    /\ notification' = "Installing..."
    /\ pc' = [pc EXCEPT ![w] = "InstallPackage"]
    /\ UNCHANGED <<mergeVars, cacheVars, sessionVars, filteredPackages, searchText, activeFilter, sortByType,
                   brewFormulae, brewCasks, uiQueue, local, cycle, lastPublisher, partialRead>>

\* the goroutine: brew install and the notification of its outcome; on
\* success forceRefreshResults follows (input.go:374-379)
InstallPackage(w) ==
    \E err \in BOOLEAN :
        /\ Running /\ pc[w] = "InstallPackage"
        /\ brewFormulae' = IF ~err /\ ~local[w].cask
                           THEN brewFormulae \cup {local[w].info} ELSE brewFormulae
        /\ brewCasks' = IF ~err /\ local[w].cask
                        THEN brewCasks \cup {local[w].info} ELSE brewCasks
        /\ notification' = IF err THEN "Failed to install" ELSE "Installed"
        /\ pc' = [pc EXCEPT ![w] = IF err THEN "done" ELSE "SetupData"]
        /\ local' = [local EXCEPT ![w] = NoLocals]
        /\ UNCHANGED <<mergeVars, cacheVars, sessionVars, filteredPackages, searchText, activeFilter,
                       sortByType, uiQueue, cycle, lastPublisher, partialRead>>

\* the complete catalogs: the one Boot merged and the one every refresh
\* cycle builds from the documents it merged and the names it listed
CompleteCatalogs ==
    {BootCatalog} \cup {cycle[w].product : w \in {v \in Workers : cycle[v].stamped}}

\* the control thread applies the update at the head of the queue
ApplyUpdate ==
    /\ Running /\ uiQueue # <<>>
    /\ uiQueue' = Tail(uiQueue)
    /\ IF Head(uiQueue).op = "notify"
       THEN /\ notification' = Head(uiQueue).text
            /\ UNCHANGED <<filteredPackages, partialRead>>
       ELSE /\ filteredPackages' \in search(allPackages, activeFilter, searchText, sortByType)
            /\ partialRead' = (partialRead \/ allPackages \notin CompleteCatalogs)
            /\ UNCHANGED notification
    /\ UNCHANGED <<mergeVars, cacheVars, sessionVars, searchText, activeFilter, sortByType,
                   brewFormulae, brewCasks, pc, local, cycle, lastPublisher>>

\* a step of a worker goroutine
WorkerStep(w) ==
    \/ updateHomeBrew(w) \/ UpdateHomebrew(w) \/ ShowWarning(w) \/ InstallPackage(w)
    \/ SetupData(w) \/ GetPackages_make(w) \/ GetPackages_append(w) \/ GetPackages_sort(w)
    \/ FetchInstalledNames(w) \/ restamp(w) \/ copyFiltered(w) \/ QueueUpdateDraw(w)

Next ==
    \/ \E w \in Workers : updateHomeBrew(w)
    \/ \E w \in Workers : UpdateHomebrew(w)
    \/ \E w \in Workers : ShowWarning(w)
    \/ \E w \in Workers : InstallPackage(w)
    \/ \E w \in Workers : SetupData(w)
    \/ \E w \in Workers : GetPackages_make(w)
    \/ \E w \in Workers : GetPackages_append(w)
    \/ \E w \in Workers : GetPackages_sort(w)
    \/ \E w \in Workers : FetchInstalledNames(w)
    \/ \E w \in Workers : restamp(w)
    \/ \E w \in Workers : copyFiltered(w)
    \/ \E w \in Workers : QueueUpdateDraw(w)
    \/ handleInstallPackageEvent
    \/ ApplyUpdate

Spec == InitApp /\ [][Next]_vars

----------------------------------------------------------------------------
(* The merge scenario: documents are loaded record by record, in name      *)
(* order as brew and the API list them, then GetPackages is called, the    *)
(* returned catalog is written to by its callers, and GetPackages is       *)
(* called again on the same documents.                                     *)

Records ==
    Len(installedFormulae) + Len(remoteFormulae) + Len(installedCasks)
    + Len(remoteCasks) + Cardinality(DOMAIN formulaeAnalytics)
    + Cardinality(DOMAIN caskAnalytics)

CanLoad == mstage = "docs" /\ Records < MaxRecords

After(doc, n) == IF Len(doc) = 0 THEN TRUE ELSE doc[Len(doc)].Name < n

AfterToken(doc, n) == IF Len(doc) = 0 THEN TRUE ELSE doc[Len(doc)].Token < n

\* GetInstalledFormulae: decode, markFormulaeAsInstalled (dataprovider.go:128-135)
LoadInstalledFormula ==
    \E n \in Names, outdated \in BOOLEAN, onRequest \in BOOLEAN :
        /\ CanLoad /\ After(installedFormulae, n)
        /\ installedFormulae' = installedFormulae \o
               markFormulaeAsInstalled(<<LocalFormula(n, outdated, onRequest)>>)
        /\ UNCHANGED <<remoteFormulae, formulaeAnalytics, installedCasks, remoteCasks,
                       caskAnalytics, allPackages, isLinux, mstage, firstCatalog>>
        /\ UNCHANGED notMergeVars

\* GetRemoteFormulae (dataprovider.go:225-231)
LoadRemoteFormula ==
    \E n \in Names, shape \in RemoteShapes :
        /\ CanLoad /\ After(remoteFormulae, n)
        /\ remoteFormulae' = Append(remoteFormulae, RemoteFormula(n, shape))
        /\ UNCHANGED <<installedFormulae, formulaeAnalytics, installedCasks, remoteCasks,
                       caskAnalytics, allPackages, isLinux, mstage, firstCatalog>>
        /\ UNCHANGED notMergeVars

\* GetFormulaeAnalytics: result[f.Formula] = f (dataprovider.go:292-295)
LoadFormulaAnalytics ==
    \E n \in Names, item \in AnalyticsItems :
        /\ CanLoad /\ n \notin DOMAIN formulaeAnalytics
        /\ formulaeAnalytics' = Put(formulaeAnalytics, n, item)
        /\ UNCHANGED <<installedFormulae, remoteFormulae, installedCasks, remoteCasks,
                       caskAnalytics, allPackages, isLinux, mstage, firstCatalog>>
        /\ UNCHANGED notMergeVars

\* GetInstalledCasks: decode, markCasksAsInstalled (dataprovider.go:185-194)
LoadInstalledCask ==
    \E n \in Names, outdated \in BOOLEAN :
        /\ CanLoad /\ AfterToken(installedCasks, n)
        /\ installedCasks' = installedCasks \o markCasksAsInstalled(<<LocalCask(n, outdated)>>)
        /\ UNCHANGED <<installedFormulae, remoteFormulae, formulaeAnalytics, remoteCasks,
                       caskAnalytics, allPackages, isLinux, mstage, firstCatalog>>
        /\ UNCHANGED notMergeVars

\* GetRemoteCasks (dataprovider.go:254-260)
LoadRemoteCask ==
    \E n \in Names, names \in {<<>>, <<"Remote App">>} :
        /\ CanLoad /\ AfterToken(remoteCasks, n)
        /\ remoteCasks' = Append(remoteCasks, RemoteCask(n, names))
        /\ UNCHANGED <<installedFormulae, remoteFormulae, formulaeAnalytics, installedCasks,
                       caskAnalytics, allPackages, isLinux, mstage, firstCatalog>>
        /\ UNCHANGED notMergeVars

\* GetCaskAnalytics: result[c.Cask] = c (dataprovider.go:332-337)
LoadCaskAnalytics ==
    \E n \in Names, item \in AnalyticsItems :
        /\ CanLoad /\ n \notin DOMAIN caskAnalytics
        /\ caskAnalytics' = Put(caskAnalytics, n, item)
        /\ UNCHANGED <<installedFormulae, remoteFormulae, formulaeAnalytics, installedCasks,
                       remoteCasks, allPackages, isLinux, mstage, firstCatalog>>
        /\ UNCHANGED notMergeVars

Merged ==
    GetPackages(allPackages, isLinux, installedFormulae, remoteFormulae,
                formulaeAnalytics, installedCasks, remoteCasks, caskAnalytics)

\* s.packages = s.dataProvider.GetPackages(), the first call
MergeFirst ==
    /\ mstage = "docs"
    /\ allPackages' = Merged
    /\ firstCatalog' = Merged
    /\ mstage' = "merged"
    /\ UNCHANGED <<dpDocs, isLinux>>
    /\ UNCHANGED notMergeVars

\* names that only a third-party tap provides
TapNames == {3}

\* models.BrewfileEntry (brewfile.go:4-8)
BrewfileEntry(name, isCask, isFlatpak) ==
    [Name |-> name, IsCask |-> isCask, IsFlatpak |-> isFlatpak]

\* the brew and cask lines of the Brewfiles read (parseBrewfileWithTaps,
\* dataprovider.go:1036-1058); each Brewfile also names a tap
Brewfiles ==
    { <<BrewfileEntry(3, FALSE, FALSE)>>,
      <<BrewfileEntry(1, FALSE, FALSE), BrewfileEntry(3, TRUE, FALSE)>>,
      <<BrewfileEntry(3, FALSE, FALSE), BrewfileEntry(3, TRUE, FALSE)>>,
      <<BrewfileEntry(3, FALSE, FALSE), BrewfileEntry(3, FALSE, FALSE)>> }

\* the name (Formula.Name, Cask.Token) of the package a name or a full name
\* user/repo/name denotes; 4 is the full name of 3
ShortName(name) == IF name = 4 THEN 3 ELSE name

\* the packages `brew info` returns for names, where brew resolves the
\* names of known; the result is keyed by name and by full name, the
\* package carries the name (fetchPackagesInfo, dataprovider.go:443-500)
fetchPackagesInfo(names, isCask, known) ==
    [name \in {n \in {names[i] : i \in 1..Len(names)} : ShortName(n) \in known} |->
        IF isCask THEN NewPackageFromCask(RemoteCask(ShortName(name), <<>>))
        ELSE NewPackageFromFormula(
                 RemoteFormula(ShortName(name), [Requirements |-> <<>>, Files |-> {}]))]

\* the fallback for packages that could not be fetched (dataprovider.go:403-408, 420-425)
FallbackPackage(name, type) ==
    [Name |-> name, DisplayName |-> NameText(name),
     Description |-> "(unable to load package info)",
     Homepage |-> "", Version |-> "", LocallyInstalled |-> FALSE, Outdated |-> FALSE,
     Type |-> type, Analytics90dRank |-> 0, Analytics90dDownloads |-> 0,
     InstalledOnRequest |-> FALSE]

FetchedOrFallback(names, fetched, type) ==
    [i \in 1..Len(names) |->
        IF names[i] \in DOMAIN fetched THEN fetched[names[i]]
        ELSE FallbackPackage(names[i], type)]

EntryNames(entries) == [i \in 1..Len(entries) |-> entries[i].Name]

\* DataProvider.GetTapPackages, where cachedPackages are the packages of
\* the cache document by name, none with forceRefresh (dataprovider.go:346-440)
GetTapPackagesFrom(entries, existingPackages, cachedPackages, knownCasks, knownFormulae) ==
    LET have == DOMAIN existingPackages \cup DOMAIN cachedPackages
        found == SelectSeq(entries, LAMBDA entry : entry.Name \in have)
        missingCasks == EntryNames(SelectSeq(entries, LAMBDA entry :
                            entry.Name \notin have /\ entry.IsCask))
        missingFormulae == EntryNames(SelectSeq(entries, LAMBDA entry :
                            entry.Name \notin have /\ ~entry.IsCask))
    IN [i \in 1..Len(found) |->
           IF found[i].Name \in DOMAIN existingPackages THEN existingPackages[found[i].Name]
           ELSE cachedPackages[found[i].Name]]
       \o FetchedOrFallback(missingCasks,
                            fetchPackagesInfo(missingCasks, TRUE, knownCasks), PackageTypeCask)
       \o FetchedOrFallback(missingFormulae,
                            fetchPackagesInfo(missingFormulae, FALSE, knownFormulae),
                            PackageTypeFormula)

\* DataProvider.GetTapPackages with forceRefresh (dataprovider.go:346-440)
GetTapPackages(entries, existingPackages, knownCasks, knownFormulae) ==
    GetTapPackagesFrom(entries, existingPackages, EmptyMap, knownCasks, knownFormulae)

\* existingPackages[pkg.Name] = pkg over *s.packages (dataprovider.go:1241-1244)
ExistingPackages(packages) ==
    [name \in {packages[i].Name : i \in 1..Len(packages)} |->
        packages[CHOOSE i \in 1..Len(packages) :
                    /\ packages[i].Name = name
                    /\ \A j \in 1..Len(packages) : packages[j].Name = name => j <= i]]

\* AppService.fetchTapPackages in Brewfile mode with a tap (dataprovider.go:1228-1253)
fetchTapPackages(packages, entries, knownCasks, knownFormulae) ==
    LET existingPackages == ExistingPackages(packages)
        tapPackages == GetTapPackages(entries, existingPackages, knownCasks, knownFormulae)
    IN packages \o SelectSeq(tapPackages, LAMBDA pkg : pkg.Name \notin DOMAIN existingPackages)

\* the startup worker and forceRefreshResults call fetchTapPackages on the
\* catalog GetPackages returned
TamperAppend ==
    \E entries \in Brewfiles, knownCasks \in SUBSET TapNames, knownFormulae \in SUBSET TapNames :
        /\ mstage = "merged"
        /\ allPackages' = fetchTapPackages(allPackages, entries, knownCasks, knownFormulae)
        /\ mstage' = "tampered"
        /\ UNCHANGED <<dpDocs, isLinux, firstCatalog>>
        /\ UNCHANGED notMergeVars

TamperRestamp ==
    \E cs \in SUBSET Names, fs \in SUBSET Names :
        /\ mstage = "merged"
        /\ allPackages' = Restamp(allPackages, cs, fs)
        /\ mstage' = "tampered"
        /\ UNCHANGED <<dpDocs, isLinux, firstCatalog>>
        /\ UNCHANGED notMergeVars

\* GetPackages again, no fetch in between
MergeAgain ==
    /\ mstage \in {"merged", "tampered"}
    /\ allPackages' = Merged
    /\ mstage' = IF mstage = "tampered" THEN "again" ELSE "againClean"
    /\ UNCHANGED <<dpDocs, isLinux, firstCatalog>>
    /\ UNCHANGED notMergeVars

InitMerge ==
    /\ installedFormulae = <<>> /\ remoteFormulae = <<>> /\ formulaeAnalytics = EmptyMap
    /\ installedCasks = <<>> /\ remoteCasks = <<>> /\ caskAnalytics = EmptyMap
    /\ allPackages = <<>>
    /\ isLinux \in BOOLEAN
    /\ mstage = "docs"
    /\ firstCatalog = <<>>
    /\ CacheUnused
    /\ SessionUnused
    /\ AppUnused

NextMerge ==
    \/ LoadInstalledFormula \/ LoadRemoteFormula \/ LoadFormulaAnalytics
    \/ LoadInstalledCask \/ LoadRemoteCask \/ LoadCaskAnalytics
    \/ MergeFirst \/ TamperAppend \/ TamperRestamp \/ MergeAgain

SpecMerge == InitMerge /\ [][NextMerge]_vars

-----------------------------------------------------------------------------
(* The refresh workers under fair scheduling: a goroutine that can take a  *)
(* step takes one, and the control thread applies the queued updates;      *)
(* every external query returns.                                           *)

SpecLive ==
    /\ InitApp /\ [][Next]_vars
    /\ \A w \in Workers : WF_vars(WorkerStep(w))
    /\ WF_vars(ApplyUpdate)

----------------------------------------------------------------------------
(* The table and the filtered list.  The catalog is the one of the query   *)
(* scenario.  The user types a search text; the goroutine of an earlier    *)
(* operation runs forceRefreshResults while Homebrew reports what it       *)
(* reported at Boot; the user presses the install key on a row of the      *)
(* table.  Every call of setResults is logged in steps with the rows it    *)
(* has drawn, and so is the read of the key handler.                       *)

\* setResults has drawn one row for every package of data
\* (dataprovider.go:843-890)
Drawn(data) == [step |-> "setResults", event |-> "drawn", tap |-> "", rows |-> data]

\* the data rows of the table: those of the last call of setResults
TableRows ==
    LET draws == SelectSeq(steps, LAMBDA s : s.step = "setResults")
    IN draws[Len(draws)].rows

\* the read of handleInstallPackageEvent for the selected row: the package
\* it names in the modal, or the index out of range (input.go:363-366)
RowRead(row, list, shown) ==
    [step |-> "handleInstallPackageEvent", tap |-> "", row |-> row, shown |-> shown.Name,
     event |-> IF row - 1 < Len(list) THEN "read" ELSE "panic",
     info |-> IF row - 1 < Len(list) THEN list[row].Name ELSE 0]

KeyHandled == \E k \in 1..Len(steps) : steps[k].step = "handleInstallPackageEvent"

InitRows ==
    \E kind \in [1..MaxCatalog -> QueryKinds], rank \in [1..MaxCatalog -> QueryRanks] :
        LET inst == NamesOfKind(kind, "installed formula")
            form == SelectSeq(NameSeq, LAMBDA n : kind[n] # "remote cask")
            cask == NamesOfKind(kind, "remote cask")
        IN
        /\ installedFormulae =
               markFormulaeAsInstalled([i \in 1..Len(inst) |-> LocalFormula(inst[i], FALSE, TRUE)])
        /\ remoteFormulae = [i \in 1..Len(form) |-> RemoteFormula(form[i], [Requirements |-> <<>>, Files |-> {}])]
        /\ formulaeAnalytics = [n \in {form[i] : i \in 1..Len(form)} |-> RankItem(rank[n])]
        /\ installedCasks = <<>>
        /\ remoteCasks = [i \in 1..Len(cask) |-> RemoteCask(cask[i], <<>>)]
        /\ caskAnalytics = [n \in {cask[i] : i \in 1..Len(cask)} |-> RankItem(rank[n])]
        /\ isLinux = FALSE
        /\ mstage = "rows"
        /\ firstCatalog = <<>>
        /\ CacheUnused
        /\ ParseUnused /\ BatchUnused
        /\ brewfilePath = "" /\ brewfilePackages = <<>>
        /\ brewfile = [Taps |-> <<>>, Packages |-> <<>>]
        /\ brewfileTaps = <<>> /\ installedTaps = <<>> /\ tapped = {}
        /\ tapsToInstall = <<>> /\ tapCache = <<>>
        \* Boot and BuildApp (part_003:119-120, 269)
        /\ allPackages = GetPackages(<<>>, isLinux, installedFormulae, remoteFormulae,
                             formulaeAnalytics, installedCasks, remoteCasks, caskAnalytics)
        /\ filteredPackages = allPackages
        /\ steps = <<Drawn(allPackages)>>
        /\ searchText = ""
        /\ activeFilter = FilterNone
        /\ sortByType = FALSE
        /\ notification = ""
        /\ brewFormulae = {inst[i] : i \in 1..Len(inst)} /\ brewCasks = {}
        /\ uiQueue = <<>>
        /\ pc = [w \in Workers |-> "idle"]
        /\ local = [w \in Workers |-> NoLocals]
        /\ cycle = [w \in Workers |-> NoCycle]
        /\ lastPublisher = "none"
        /\ partialRead = FALSE

\* the user types in the search field: changedFunc runs search, which
\* stores the list and draws it (part_003:202-204, dataprovider.go:781-782)
TypeSearchText ==
    \E text \in SearchTexts \ {""} :
        /\ mstage = "rows"
        /\ searchText' = text
        /\ filteredPackages' \in search(allPackages, activeFilter, text, sortByType)
        /\ steps' = Append(steps, Drawn(filteredPackages'))
        /\ mstage' = "typed"
        /\ UNCHANGED <<dpDocs, allPackages, isLinux, firstCatalog, cacheVars, parseVars,
                       batchVars, workerVars, activeFilter, sortByType, notification,
                       brewfilePath, brewfilePackages, brewfile, brewfileTaps, installedTaps,
                       tapped, tapsToInstall, tapCache>>

\* forceRefreshResults on the goroutine of the operation: the catalog is
\* merged and re-stamped, the filtered list is assigned, and the search is
\* queued for the control thread (dataprovider.go:814-839)
RefreshFilteredList ==
    /\ mstage \in {"rows", "typed"}
    /\ allPackages' =
           Restamp(GetPackages(allPackages, isLinux, installedFormulae, remoteFormulae,
                               formulaeAnalytics, installedCasks, remoteCasks, caskAnalytics),
                   brewCasks, brewFormulae)
    /\ filteredPackages' = allPackages'
    /\ uiQueue' = Append(uiQueue, Requery("install"))
    /\ mstage' = "written"
    /\ UNCHANGED <<dpDocs, isLinux, firstCatalog, cacheVars, sessionVars, searchText,
                   activeFilter, sortByType, notification, brewFormulae, brewCasks,
                   pc, local, cycle, lastPublisher, partialRead>>

\* the control thread runs the queued search with the text of the search
\* field (dataprovider.go:837-839)
ApplyRequery ==
    /\ mstage = "written" /\ uiQueue # <<>>
    /\ uiQueue' = Tail(uiQueue)
    /\ filteredPackages' \in search(allPackages, activeFilter, searchText, sortByType)
    /\ steps' = Append(steps, Drawn(filteredPackages'))
    /\ mstage' = "applied"
    /\ UNCHANGED <<dpDocs, allPackages, isLinux, firstCatalog, cacheVars, parseVars,
                   batchVars, searchText, activeFilter, sortByType, notification,
                   brewFormulae, brewCasks, pc, local, cycle, lastPublisher, partialRead,
                   brewfilePath, brewfilePackages, brewfile, brewfileTaps, installedTaps,
                   tapped, tapsToInstall, tapCache>>

\* the user presses the install key with a data row of the table selected
\* and no row marked: the handler reads the filtered list at the row
\* (input.go:356, 363-367)
PressInstallKey ==
    \E row \in 1..Len(TableRows) :
        /\ mstage # "panic" /\ ~KeyHandled
        /\ steps' = Append(steps, RowRead(row, filteredPackages, TableRows[row]))
        /\ mstage' = IF row - 1 < Len(filteredPackages) THEN mstage ELSE "panic"
        /\ UNCHANGED <<dpDocs, allPackages, isLinux, firstCatalog, cacheVars, parseVars,
                       batchVars, uiVars, workerVars,
                       brewfilePath, brewfilePackages, brewfile, brewfileTaps, installedTaps,
                       tapped, tapsToInstall, tapCache>>

NextRows == TypeSearchText \/ RefreshFilteredList \/ ApplyRequery \/ PressInstallKey

SpecRows == InitRows /\ [][NextRows]_vars

----------------------------------------------------------------------------
(* parseBrewfileWithTaps.  A line of the Brewfile is a first word and the  *)
(* rest of the line after one space, spelled out as a sequence of          *)
(* characters; the blank line has neither.  The Brewfile is read line by   *)
(* line.                                                                   *)

\* lines of a Brewfile
MaxLines == 2

\* characters after the first word of a line
MaxRest == 4

Quote == "\""

RestChars == {Quote, "a", " "}

Directives == {"tap", "brew", "cask", "flatpak"}

\* the first words: the directives, the comment sign, another directive
Words == Directives \cup {"#", "gem"}

BlankLine == [word |-> "", rest |-> <<>>]

BrewfileLines ==
    {BlankLine} \cup
    {[word |-> w, rest |-> r] : w \in Words, r \in UNION {[1..n -> RestChars] : n \in 0..MaxRest}}

\* strings.TrimSpace on the end of the line
RECURSIVE TrimRight(_)
TrimRight(text) ==
    IF text # <<>> /\ text[Len(text)] = " " THEN TrimRight(SubSeq(text, 1, Len(text) - 1))
    ELSE text

\* strings.TrimSpace(line): a word whose rest is spaces loses the space
\* that follows it
TrimSpace(line) == [word |-> line.word, rest |-> TrimRight(line.rest)]

\* strings.HasPrefix(line, directive + " ")
HasPrefix(line, directive) == line.word = directive /\ line.rest # <<>>

\* strings.Index(text, "\""), counted from 1; 0 when there is none
Index(text) ==
    IF \E i \in 1..Len(text) : text[i] = Quote
    THEN CHOOSE i \in 1..Len(text) : text[i] = Quote /\ \A j \in 1..(i - 1) : text[j] # Quote
    ELSE 0

\* strings.LastIndex(text, "\"")
LastIndex(text) ==
    IF \E i \in 1..Len(text) : text[i] = Quote
    THEN CHOOSE i \in 1..Len(text) : text[i] = Quote /\ \A j \in (i + 1)..Len(text) : text[j] # Quote
    ELSE 0

\* the name of a tap line: from the first quote to the next (dataprovider.go:1020-1030)
TapName(rest) ==
    LET start == Index(rest)
        end == IF start = 0 THEN 0 ELSE Index(SubSeq(rest, start + 1, Len(rest)))
    IN IF start # 0 /\ end # 0 THEN <<SubSeq(rest, start + 1, start + end - 1)>> ELSE <<>>

\* the name of a brew, cask or flatpak line: from the first quote to the
\* last (dataprovider.go:1034-1037)
PackageName(rest) ==
    LET start == Index(rest)
        end == LastIndex(rest)
    IN IF start # 0 /\ end # 0 /\ start < end THEN <<SubSeq(rest, start + 1, end - 1)>>
       ELSE <<>>

\* the body of the loop over the lines (dataprovider.go:1011-1070)
parseLine(res, rawLine) ==
    LET line == TrimSpace(rawLine)
        entries(isCask, isFlatpak) ==
            [i \in 1..Len(PackageName(line.rest)) |->
                BrewfileEntry(PackageName(line.rest)[i], isCask, isFlatpak)]
    IN IF line = BlankLine \/ line.word = "#" THEN res
       ELSE IF HasPrefix(line, "tap") THEN [res EXCEPT !.Taps = @ \o TapName(line.rest)]
       ELSE IF HasPrefix(line, "brew") THEN [res EXCEPT !.Packages = @ \o entries(FALSE, FALSE)]
       ELSE IF HasPrefix(line, "cask") THEN [res EXCEPT !.Packages = @ \o entries(TRUE, FALSE)]
       ELSE IF HasPrefix(line, "flatpak") THEN [res EXCEPT !.Packages = @ \o entries(FALSE, TRUE)]
       ELSE res

\* what a line declares: the first quoted name of a line that starts with
\* a directive; nothing when the line holds no quoted name
QuotedName(rest) == TapName(rest)

Declares(dec, line) ==
    LET name == QuotedName(line.rest)
        entry(isCask, isFlatpak) ==
            [i \in 1..Len(name) |-> BrewfileEntry(name[i], isCask, isFlatpak)]
    IN CASE line.word = "tap" -> [dec EXCEPT !.Taps = @ \o name]
         [] line.word = "brew" -> [dec EXCEPT !.Packages = @ \o entry(FALSE, FALSE)]
         [] line.word = "cask" -> [dec EXCEPT !.Packages = @ \o entry(TRUE, FALSE)]
         [] line.word = "flatpak" -> [dec EXCEPT !.Packages = @ \o entry(FALSE, TRUE)]
         [] OTHER -> dec

\* os.ReadFile (dataprovider.go:1000-1003)
ReadFile ==
    \E err \in BOOLEAN :
        /\ parseStage = "ReadFile"
        /\ parseStage' = IF err THEN "failed" ELSE "lines"
        /\ UNCHANGED <<mergeVars, cacheVars, appVars, manifestVars, batchVars,
                       lineNo, result, declared>>

\* one line of the Brewfile is parsed
ParseLine ==
    \E line \in BrewfileLines :
        /\ parseStage = "lines" /\ lineNo < MaxLines
        /\ lineNo' = lineNo + 1
        /\ result' = parseLine(result, line)
        /\ declared' = Declares(declared, line)
        /\ UNCHANGED <<mergeVars, cacheVars, appVars, manifestVars, batchVars, parseStage>>

\* return result, nil (dataprovider.go:1072)
ReturnResult ==
    /\ parseStage = "lines"
    /\ parseStage' = "returned"
    /\ UNCHANGED <<mergeVars, cacheVars, appVars, manifestVars, batchVars,
                   lineNo, result, declared>>

InitParse ==
    /\ installedFormulae = <<>> /\ remoteFormulae = <<>> /\ formulaeAnalytics = EmptyMap
    /\ installedCasks = <<>> /\ remoteCasks = <<>> /\ caskAnalytics = EmptyMap
    /\ allPackages = <<>>
    /\ isLinux = FALSE
    /\ mstage = "parse"
    /\ firstCatalog = <<>>
    /\ CacheUnused
    /\ AppUnused
    /\ ManifestUnused
    /\ BatchUnused
    /\ parseStage = "ReadFile" /\ lineNo = 0
    /\ result = [Taps |-> <<>>, Packages |-> <<>>]
    /\ declared = [Taps |-> <<>>, Packages |-> <<>>]

NextParse == ReadFile \/ ParseLine \/ ReturnResult

SpecParse == InitParse /\ [][NextParse]_vars

----------------------------------------------------------------------------
(* The batch operations: processSelectedPackages over the rows selected    *)
(* in the table and handleBatchPackageOperation over the packages of the   *)
(* Brewfile.  The goroutine of a batch takes the packages one by one; a    *)
(* step is one iteration of its loop.                                      *)

\* packages in the displayed list
MaxBatch == 3

\* the first name is a formula, every other name a cask
BatchPackage(n, installed) ==
    [(IF n = 1
      THEN NewPackageFromFormula(RemoteFormula(n, [Requirements |-> <<>>, Files |-> {}]))
      ELSE NewPackageFromCask(RemoteCask(n, <<>>)))
        EXCEPT !.LocallyInstalled = installed]

\* the lists a batch can find displayed, sorted by name
BatchLists ==
    UNION {{[i \in 1..n |-> BatchPackage(i, inst[i])] : inst \in [1..n -> BOOLEAN]} :
               n \in 1..MaxBatch}

\* Table.GetSelectedRows: the rows of the selection map in the order the
\* iteration over the map yields them (part_000:76-82)
GetSelectedRows(marked) ==
    Reordered(SelectSeq([i \in 1..MaxBatch + 1 |-> i], LAMBDA row : row \in marked))

\* batchOperation.skipCondition of the install all and remove all keys; the
\* batch of a selection skips nothing (input.go:593, 606)
skipCondition(op, pkg) ==
    /\ op.op = "brewfile"
    /\ IF op.install THEN pkg.LocallyInstalled ELSE ~pkg.LocallyInstalled

\* the loop of a batch that gives up at the first failure
NextPackage_abort(i, total, failed) == IF failed THEN total ELSE i + 1

\* where the loop goes after a package: `continue` after a failure, the
\* next iteration after a success (input.go:488-507, 558-579)
NextPackage(i, total, failed) == i + 1

\* handleToggleSelectionEvent: the space key marks the current row of the
\* table or removes its mark (input.go:226-239, part_000:49-58)
handleToggleSelectionEvent ==
    \E row \in 1..Len(filteredPackages) :
        /\ batch.stage = "idle"
        /\ selectedRows' = IF row \in selectedRows THEN selectedRows \ {row}
                           ELSE selectedRows \cup {row}
        /\ UNCHANGED <<mergeVars, cacheVars, appVars, parseVars, manifestVars,
                       batch, attempted, reports, processed>>

\* showModal: the modal is on the screen with the closure of the operation,
\* which holds the packages the handler has read (input.go:343-346).  The
\* handlers of a package and of marked rows copy the packages; the handler
\* of the Brewfile holds the slice *s.brewfilePackages itself, which shares
\* its array with the Brewfile list (input.go:527)
showModal(op, install, packages) ==
    [op |-> op, install |-> install, packages |-> packages, i |-> 0, stage |-> "modal",
     confirmed |-> FALSE, shared |-> op = "brewfile"]

\* the install, remove and update keys with no row marked: the modal for
\* the package of the current row (input.go:356-367, 386-397, 416-427)
handlePackageEvent ==
    \E row \in 1..Len(filteredPackages) :
        /\ batch.stage = "idle"
        /\ selectedRows = {}
        /\ batch' = showModal("single", FALSE, <<filteredPackages[row]>>)
        /\ UNCHANGED <<mergeVars, cacheVars, appVars, parseVars, manifestVars,
                       attempted, reports, processed, selectedRows>>

\* handleUpdateAllPackagesEvent: the modal of update all (input.go:445-446)
handleUpdateAllPackagesEvent ==
    /\ batch.stage = "idle"
    /\ batch' = showModal("updateAll", FALSE, <<>>)
    /\ UNCHANGED <<mergeVars, cacheVars, appVars, parseVars, manifestVars,
                   attempted, reports, processed, selectedRows>>

\* processSelectedPackages up to its modal: the packages of the marked rows
\* are copied from the filtered list (input.go:471-487)
processSelectedPackages ==
    \E rows \in GetSelectedRows(selectedRows) :
        LET valid == SelectSeq(rows, LAMBDA row : row > 0 /\ row - 1 < Len(filteredPackages))
            packages == [k \in 1..Len(valid) |-> filteredPackages[valid[k]]]
        IN
        /\ batch.stage = "idle"
        /\ Len(rows) # 0 /\ Len(packages) # 0
        /\ batch' = showModal("selected", FALSE, packages)
        /\ UNCHANGED <<mergeVars, cacheVars, appVars, parseVars, manifestVars,
                       attempted, reports, processed, selectedRows>>

\* handleBatchPackageOperation up to its modal, for the install all and the
\* remove all key (input.go:518-546, 589-612)
handleBatchPackageOperation ==
    \E install \in BOOLEAN :
        LET op == showModal("brewfile", install, brewfilePackages)
            actionable == Len(SelectSeq(brewfilePackages, LAMBDA pkg : ~skipCondition(op, pkg)))
        IN
        /\ batch.stage = "idle"
        /\ brewfilePath # ""
        /\ IF Len(brewfilePackages) = 0
           THEN /\ notification' = "No packages found in Brewfile"
                /\ UNCHANGED batch
           ELSE IF actionable = 0
           THEN /\ notification' = "No packages to process"
                /\ UNCHANGED batch
           ELSE /\ batch' = op
                /\ UNCHANGED notification
        /\ UNCHANGED <<mergeVars, cacheVars, workerVars, parseVars, manifestVars,
                       filteredPackages, searchText, activeFilter, sortByType,
                       attempted, reports, processed, selectedRows>>

\* mutant: the cancel button runs the operation
closeModal_runs(operation) ==
    [operation EXCEPT !.stage = IF operation.op \in {"single", "updateAll"}
                                THEN "command" ELSE "loop"]

\* closeModal as the cancel function of a modal: the modal and its closure
\* are gone (input.go:349-352, 381)
closeModal(operation) == NoBatch

\* the answers the user can give to a modal
ModalButtons == {"confirm", "cancel"}

\* the user answers the modal: the cancel button calls closeModal; the
\* confirm button calls the closure, which closes the modal, clears the
\* output and starts the goroutine with the packages it holds
\* (input.go:368-371, 446-449, 494-497, 547-550)
AnswerModal ==
    \E button \in ModalButtons :
        /\ batch.stage = "modal"
        /\ IF button = "cancel"
           THEN /\ batch' = closeModal(batch)
                /\ UNCHANGED reports
           ELSE /\ batch' = [batch EXCEPT !.confirmed = TRUE,
                                          !.stage = IF batch.op \in {"single", "updateAll"}
                                                    THEN "command" ELSE "loop"]
                /\ reports' = <<>>
        /\ UNCHANGED <<mergeVars, cacheVars, appVars, parseVars, manifestVars,
                       attempted, processed, selectedRows>>

\* what a refresh can find changed since the list was displayed: the
\* installed flag of every package, or the first package gone
RefreshedLists(list) ==
    {[k \in 1..Len(list) |-> [list[k] EXCEPT !.LocallyInstalled = ~@]]}
        \cup (IF Len(list) > 1 THEN {Tail(list)} ELSE {})

\* a refresh that was running when the modal was opened ends: the lists
\* are replaced by what Homebrew reports now and the queued search draws
\* the table, which clears the marks (dataprovider.go:812-840, 844,
\* part_000:40-43)
RefreshUnderModal ==
    \E list \in RefreshedLists(filteredPackages) :
        /\ batch.stage = "modal" /\ mstage = "batch"
        /\ allPackages' = list
        /\ filteredPackages' = list
        /\ brewfilePackages' = IF brewfilePath = "" THEN <<>> ELSE list
        /\ selectedRows' = {}
        /\ mstage' = "batchRefreshed"
        \* loadBrewfilePackages makes a new slice (dataprovider.go:1106)
        /\ batch' = [batch EXCEPT !.shared = FALSE]
        /\ UNCHANGED <<dpDocs, isLinux, firstCatalog, cacheVars, workerVars, parseVars,
                       searchText, activeFilter, sortByType, notification,
                       brewfilePath, brewfile, brewfileTaps, installedTaps, tapped,
                       tapsToInstall, tapCache, steps, attempted, reports, processed>>

\* handleSortTypeEvent, pressed once while an operation is open or running:
\* the search sorts the displayed list, with no filter and no search text in place,
\* and draws the table (input.go:615-623, dataprovider.go:724-735, 761-768)
SortDisplayedList ==
    LET brewfileMode == brewfilePath # ""
        source == IF brewfileMode THEN brewfilePackages ELSE allPackages
    IN
    /\ batch.stage \in {"modal", "loop"} /\ ~sortByType
    /\ sortByType' = ~sortByType
    /\ filteredPackages' \in search(source, activeFilter, searchText, sortByType')
    /\ LET after == sourceAfterSearch(source, activeFilter, searchText, sortByType',
                                      filteredPackages')
       IN /\ brewfilePackages' = IF brewfileMode THEN after ELSE brewfilePackages
          /\ allPackages' = IF brewfileMode THEN allPackages ELSE after
          /\ batch' = IF batch.shared THEN [batch EXCEPT !.packages = after] ELSE batch
    /\ selectedRows' = {}
    /\ notification' = IF sortByType' THEN "Sorting by Type" ELSE "Sorting by Name (Default)"
    /\ UNCHANGED <<dpDocs, isLinux, mstage, firstCatalog, cacheVars, workerVars, parseVars,
                   searchText, activeFilter,
                   brewfilePath, brewfile, brewfileTaps, installedTaps, tapped,
                   tapsToInstall, tapCache, steps, attempted, reports, processed>>

\* the goroutine of a single-package operation or of update all: the brew
\* command and the notification of its outcome (input.go:372-379, 450-457)
RunCommand ==
    \E err \in BOOLEAN :
        /\ batch.stage = "command"
        /\ attempted' = Append(attempted,
               [name |-> IF batch.op = "single" THEN batch.packages[1].Name ELSE 0,
                err |-> err])
        /\ notification' = IF err THEN "Failed" ELSE "Done"
        /\ batch' = [batch EXCEPT !.stage = "returned"]
        /\ UNCHANGED <<mergeVars, cacheVars, workerVars, parseVars, manifestVars,
                       filteredPackages, searchText, activeFilter, sortByType,
                       reports, processed, selectedRows>>

\* one iteration of the loop of the goroutine: the package is skipped, or
\* executed and its outcome reported (input.go:488-507, 558-579)
BatchStep ==
    \E err \in BOOLEAN :
        LET total == Len(batch.packages)
            pkg == batch.packages[batch.i + 1]
        IN
        /\ batch.stage = "loop" /\ batch.i < total
        /\ IF skipCondition(batch, pkg)
           THEN /\ ~err
                /\ notification' = "Skipping"
                /\ reports' = Append(reports, [tag |-> "SKIP", name |-> pkg.Name])
                /\ batch' = [batch EXCEPT !.i = @ + 1]
                /\ UNCHANGED attempted
           ELSE /\ attempted' = Append(attempted, [name |-> pkg.Name, err |-> err])
                /\ notification' = IF err THEN "Failed to process" ELSE "Processing"
                /\ reports' = reports \o
                       << [tag |-> "START", name |-> pkg.Name],
                          [tag |-> IF err THEN "ERROR" ELSE "SUCCESS", name |-> pkg.Name] >>
                /\ batch' = [batch EXCEPT !.i = NextPackage(batch.i, total, err)]
        /\ UNCHANGED <<mergeVars, cacheVars, workerVars, parseVars, manifestVars,
                       filteredPackages, searchText, activeFilter, sortByType, processed,
                       selectedRows>>

\* the final notification, "Completed! Processed %d packages" with total;
\* the batch of marked rows clears the marks; forceRefreshResults follows
\* (input.go:509-511, 582-583)
BatchFinish ==
    /\ batch.stage = "loop" /\ batch.i >= Len(batch.packages)
    /\ notification' = "Completed! Processed"
    /\ processed' = Len(batch.packages)
    /\ batch' = [batch EXCEPT !.stage = "done"]
    /\ selectedRows' = IF batch.op = "selected" THEN {} ELSE selectedRows
    /\ UNCHANGED <<mergeVars, cacheVars, workerVars, parseVars, manifestVars,
                   filteredPackages, searchText, activeFilter, sortByType,
                   attempted, reports>>

\* the application shows a list of packages, the catalog or, in Brewfile
\* mode, the packages of the Brewfile (part_003:264-270)
InitBatch ==
    \E list \in BatchLists, path \in {"", "Brewfile"} :
        /\ installedFormulae = <<>> /\ remoteFormulae = <<>> /\ formulaeAnalytics = EmptyMap
        /\ installedCasks = <<>> /\ remoteCasks = <<>> /\ caskAnalytics = EmptyMap
        /\ allPackages = list
        /\ isLinux = FALSE
        /\ mstage = "batch"
        /\ firstCatalog = <<>>
        /\ CacheUnused
        /\ filteredPackages = list
        /\ searchText = ""
        /\ activeFilter = FilterNone
        /\ sortByType = FALSE
        /\ notification = ""
        /\ WorkersUnused
        /\ ParseUnused
        /\ brewfilePath = path
        /\ brewfilePackages = IF path = "" THEN <<>> ELSE list
        /\ TapsUnused
        /\ BatchUnused

NextBatch ==
    \/ handleToggleSelectionEvent \/ handlePackageEvent \/ handleUpdateAllPackagesEvent
    \/ processSelectedPackages \/ handleBatchPackageOperation \/ AnswerModal
    \/ RefreshUnderModal \/ SortDisplayedList \/ RunCommand \/ BatchStep \/ BatchFinish

SpecBatch == InitBatch /\ [][NextBatch]_vars

----------------------------------------------------------------------------
(* Brewfile mode: loadBrewfilePackages, fetchTapPackages and the startup   *)
(* goroutine of BuildApp.  The flatpak binary is not installed and the     *)
(* Brewfile has no flatpak line.  Formula 1 and cask 2 are in Homebrew's   *)
(* own repositories; tap "t1" holds formula 3, whose full name is 4, and   *)
(* tap "t2" holds formula 2 and cask 3.  brew resolves the packages of the *)
(* taps that are installed; no cask is installed, `brew list --cask`       *)
(* prints nothing.  A step of the goroutine is one call it makes; the      *)
(* control thread applies the queued updates in between.                   *)

Taps == {"t1", "t2"}

\* the formulae and the casks `brew info` resolves when the taps of
\* installed are installed
KnownFormulae(installed) ==
    {1} \cup (IF "t1" \in installed THEN {3} ELSE {}) \cup (IF "t2" \in installed THEN {2} ELSE {})

KnownCasks(installed) == {2} \cup (IF "t2" \in installed THEN {3} ELSE {})

\* the Brewfiles of the scenario as parseBrewfileWithTaps returns them
Manifests ==
    { [Taps |-> <<"t1">>, Packages |-> <<BrewfileEntry(3, FALSE, FALSE)>>],
      [Taps |-> <<"t1">>, Packages |-> <<BrewfileEntry(4, FALSE, FALSE)>>],
      [Taps |-> <<"t1", "t2">>,
       Packages |-> <<BrewfileEntry(1, FALSE, FALSE), BrewfileEntry(3, TRUE, FALSE)>>],
      [Taps |-> <<"t2", "t1">>,
       Packages |-> <<BrewfileEntry(3, FALSE, FALSE), BrewfileEntry(3, TRUE, FALSE)>>],
      [Taps |-> <<"t2">>, Packages |-> <<BrewfileEntry(2, FALSE, FALSE)>>],
      [Taps |-> <<"t1", "t1">>, Packages |-> <<BrewfileEntry(3, FALSE, FALSE)>>],
      [Taps |-> <<>>,
       Packages |-> <<BrewfileEntry(1, FALSE, FALSE), BrewfileEntry(2, TRUE, FALSE)>>] }

\* packageMap of loadBrewfilePackages: the type of the last entry of each
\* name (dataprovider.go:1089-1096)
brewfilePackageMap(entries) ==
    [name \in {entries[i].Name : i \in 1..Len(entries)} |->
        LET last == CHOOSE i \in 1..Len(entries) :
                        /\ entries[i].Name = name
                        /\ \A j \in 1..Len(entries) : entries[j].Name = name => j <= i
        IN IF entries[last].IsCask THEN PackageTypeCask ELSE PackageTypeFormula]

\* the packages of list that foundPackages lets through: the first of each
\* name not in seen (dataprovider.go:1110-1112, 1120, 1204-1206, 1213)
RECURSIVE NotFound(_, _)
NotFound_all(list, seen) == list

NotFound(list, seen) ==
    IF list = <<>> THEN <<>>
    ELSE IF Head(list).Name \in seen THEN NotFound(Tail(list), seen)
    ELSE <<Head(list)>> \o NotFound(Tail(list), seen \cup {Head(list).Name})

\* the packages of the catalog that the Brewfile names with their type
\* (dataprovider.go:1106-1122)
CatalogPackages(entries, packages) ==
    LET types == brewfilePackageMap(entries)
    IN NotFound(SelectSeq(packages, LAMBDA pkg :
                    IF pkg.Name \in DOMAIN types THEN types[pkg.Name] = pkg.Type ELSE FALSE),
                {})

PackageNameSet(packages) == {packages[i].Name : i \in 1..Len(packages)}

\* a package of the secondary manager: the metadata of Flathub where it
\* has the application, the installed flag from the installed applications
FlatpakPackage(name, apps, metadata) ==
    [Name |-> name,
     DisplayName |-> IF name \in metadata THEN "Flatpak App" ELSE NameText(name),
     Description |-> IF name \in metadata THEN "flatpak desc" ELSE "",
     Homepage |-> "", Version |-> IF name \in metadata THEN "stable" ELSE "",
     LocallyInstalled |-> name \in apps, Outdated |-> FALSE,
     Type |-> PackageTypeFlatpak, Analytics90dRank |-> 0, Analytics90dDownloads |-> 0,
     InstalledOnRequest |-> FALSE]

\* DataProvider.GetFlatpakPackages: a package for every Flatpak entry
GetFlatpakPackages(entries, apps, metadata) ==
    LET flatpaks == SelectSeq(entries, LAMBDA entry : entry.IsFlatpak)
    IN [i \in 1..Len(flatpaks) |-> FlatpakPackage(flatpaks[i].Name, apps, metadata)]

\* what the secondary manager answers: whether the flatpak binary is in the
\* PATH, the installed applications and the applications Flathub describes,
\* none when the query fails (flatpak.go:34-113)
NoFlatpak == [installed |-> FALSE, apps |-> {}, metadata |-> {}]

\* flatpakPackages of loadBrewfilePackages (dataprovider.go:1124-1142)
LoadFlatpakPackages(parsed, flatpak) ==
    IF flatpak.installed
    THEN GetFlatpakPackages(parsed.Packages, flatpak.apps, flatpak.metadata)
    ELSE <<>>

\* the entries not found in the catalog or among the Flatpak packages
\* (dataprovider.go:1161-1166)
TapEntries(entries, packages, flatpakPackages) ==
    LET found == CatalogPackages(entries, packages)
        flatpaks == NotFound(flatpakPackages, PackageNameSet(found))
    IN SelectSeq(entries, LAMBDA entry :
           entry.Name \notin PackageNameSet(found) \cup PackageNameSet(flatpaks))

\* the placeholder of an entry (dataprovider.go:1174-1187)
Placeholder(entry) ==
    [Name |-> entry.Name, DisplayName |-> NameText(entry.Name),
     Description |-> "Waiting for tap installation...",
     Homepage |-> "", Version |-> "", LocallyInstalled |-> FALSE, Outdated |-> FALSE,
     Type |-> IF entry.IsCask THEN PackageTypeCask ELSE PackageTypeFormula,
     Analytics90dRank |-> 0, Analytics90dDownloads |-> 0,
     InstalledOnRequest |-> FALSE]

\* tapPackages of loadBrewfilePackages: the placeholders, or what
\* GetTapPackages returns without forceRefresh (dataprovider.go:1169-1200)
LoadTapPackages(usePlaceholders, parsed, packages, flatpaks, cached, knownCasks, knownFormulae) ==
    LET tapEntries == TapEntries(parsed.Packages, packages, flatpaks)
    IN IF usePlaceholders
       THEN [i \in 1..Len(tapEntries) |-> Placeholder(tapEntries[i])]
       ELSE GetTapPackagesFrom(tapEntries, ExistingPackages(packages), cached,
                               knownCasks, knownFormulae)

\* *s.brewfilePackages as loadBrewfilePackages leaves it, given the parsed
\* Brewfile, *s.packages, the tap packages and the names `brew list`
\* prints (dataprovider.go:1098-1220)
loadBrewfilePackages(parsed, packages, flatpakPackages, tapPackages, casks, formulae) ==
    LET found == CatalogPackages(parsed.Packages, packages)
        flatpaks == NotFound(flatpakPackages, PackageNameSet(found))
        seen == PackageNameSet(found) \cup PackageNameSet(flatpaks)
    IN SortByName(Restamp(found, casks, formulae)
                  \o flatpaks
                  \o Restamp(NotFound(tapPackages, seen), casks, formulae))

\* the packages of the cache document by name, none when the document is
\* older than ten minutes (dataprovider.go:355-365)
CachedPackages(document, fresh) == IF fresh THEN ExistingPackages(document) ELSE EmptyMap

\* the cache document after GetTapPackages returned tapPackages
\* (dataprovider.go:430-437)
SaveTapPackages(document, tapPackages) == IF Len(tapPackages) > 0 THEN tapPackages ELSE document

\* the cache documents a session can find: none, or the result of a session
\* in which tap "t1" was not installed
TapCaches == {<<>>, <<FallbackPackage(3, PackageTypeFormula)>>}

\* the steps of the startup goroutine in the order of the code
\* (part_003:216-262)
StartupSteps ==
    <<"loadPlaceholders", "installTaps", "fetchTapPackages", "loadResolved", "updateHomeBrew">>

Started(step) == [step |-> step, event |-> "started", tap |-> ""]

Finished(step) == [step |-> step, event |-> "finished", tap |-> ""]

\* the step has returned early
Skipped(step) == [step |-> step, event |-> "skipped", tap |-> ""]

\* s.brewService.InstallTap has returned for tap (dataprovider.go:1278)
Attempt(tap, err) ==
    [step |-> "installTaps", event |-> IF err THEN "failed" ELSE "installed", tap |-> tap]

\* the closures of installBrewfileTapsAtStartup: a notification and a line
\* of the output view about tap (dataprovider.go:1273-1287)
TapUpdate(text, tap) == [op |-> "tap", text |-> text, by |-> tap]

\* the closures of the startup goroutine that show *s.brewfilePackages
\* (part_003:230-234, 252-256)
SetResults(text) == [op |-> "setResults", text |-> text, by |-> "startup"]

OutputTag(text) ==
    CASE text = "Installing tap" -> "TAP"
      [] text = "Failed to install tap" -> "ERROR"
      [] OTHER -> "SUCCESS"

\* Boot has merged the catalog from the documents it loaded, the installed
\* formulae from a cache document that can be older than the last
\* installation, and has read the taps of the Brewfile (part_003:105-134);
\* BuildApp has started the goroutine (part_003:216)
InitManifest ==
    \E manifest \in Manifests, taps \in SUBSET Taps, formulae \in SUBSET {3},
       stale \in BOOLEAN, cache \in TapCaches :
        /\ 3 \in formulae => "t1" \in taps
        /\ installedFormulae = InstalledFormulaeDoc(IF stale THEN {} ELSE formulae)
        /\ remoteFormulae = RemoteFormulaeDoc /\ formulaeAnalytics = FormulaAnalyticsDoc
        /\ installedCasks = <<>>
        /\ remoteCasks = RemoteCasksDoc /\ caskAnalytics = CaskAnalyticsDoc
        /\ isLinux = FALSE
        /\ allPackages = GetPackages(<<>>, FALSE, installedFormulae, remoteFormulae,
                                     formulaeAnalytics, installedCasks, remoteCasks,
                                     caskAnalytics)
        /\ mstage = "manifest"
        /\ firstCatalog = <<>>
        /\ CacheUnused
        /\ filteredPackages = <<>>
        /\ searchText = ""
        /\ activeFilter = FilterNone
        /\ sortByType = FALSE
        /\ notification = ""
        /\ brewFormulae = formulae /\ brewCasks = {}
        /\ uiQueue = <<>>
        /\ pc = [w \in Workers |-> IF w = "startup" THEN "loadPlaceholders" ELSE "idle"]
        /\ local = [w \in Workers |-> NoLocals]
        /\ cycle = [w \in Workers |-> NoCycle]
        /\ lastPublisher = "none"
        /\ partialRead = FALSE
        /\ ParseUnused
        /\ brewfilePath = "Brewfile"
        /\ brewfilePackages = <<>>
        /\ brewfile = manifest
        /\ brewfileTaps = manifest.Taps
        /\ installedTaps = <<>>
        /\ tapped = taps
        /\ tapsToInstall = <<>>
        /\ tapCache = cache
        /\ steps = <<>>
        /\ BatchUnused

\* the step after step (part_003:225-261)
NextStep_skipTaps(step) ==
    CASE step = "loadPlaceholders" -> "fetchTapPackages"
      [] step = "installTaps" -> "fetchTapPackages"
      [] step = "fetchTapPackages" -> "loadResolved"
      [] OTHER -> "updateHomeBrew"

NextStep(step) ==
    CASE step = "loadPlaceholders" -> "installTaps"
      [] step = "installTaps" -> "fetchTapPackages"
      [] step = "fetchTapPackages" -> "loadResolved"
      [] OTHER -> "updateHomeBrew"

\* 1. Initial Load: loadBrewfilePackages(true) and the update that shows
\* its result or its error (part_003:219-235)
LoadPlaceholders ==
    \E readErr \in BOOLEAN, formulaErr \in BOOLEAN :
        LET casks == brewCasks
            formulae == IF formulaErr THEN {} ELSE brewFormulae
            tapPackages == LoadTapPackages(TRUE, brewfile, allPackages, <<>>, EmptyMap, {}, {})
        IN
        /\ pc["startup"] = "loadPlaceholders"
        /\ IF readErr
           THEN /\ ~formulaErr
                /\ uiQueue' = uiQueue \o << Notify("Loading Brewfile packages..."),
                                            Notify("Failed to load Brewfile") >>
                /\ UNCHANGED <<brewfileTaps, brewfilePackages>>
           ELSE /\ brewfileTaps' = brewfile.Taps
                /\ brewfilePackages' =
                       loadBrewfilePackages(brewfile, allPackages, <<>>, tapPackages, casks, formulae)
                /\ uiQueue' = uiQueue \o << Notify("Loading Brewfile packages..."),
                                            SetResults("Brewfile loaded (installing taps...)") >>
        /\ steps' = steps \o << Started("loadPlaceholders"),
                               IF readErr THEN Skipped("loadPlaceholders")
                               ELSE Finished("loadPlaceholders") >>
        /\ pc' = [pc EXCEPT !["startup"] = NextStep("loadPlaceholders")]
        /\ UNCHANGED <<mergeVars, cacheVars, uiVars, parseVars, batchVars,
                       brewFormulae, brewCasks, local, cycle, lastPublisher, partialRead,
                       brewfilePath, brewfile, installedTaps, tapped, tapsToInstall,
                       tapCache>>

\* 2. Install Taps: the taps that are not installed are collected; the
\* step is over when there is none (part_003:238-240, dataprovider.go:1259-1268)
CheckTaps ==
    LET missing == SelectSeq(brewfileTaps, LAMBDA tap : tap \notin tapped) IN
    /\ pc["startup"] = "installTaps"
    /\ IF Len(brewfileTaps) = 0
       THEN /\ pc' = [pc EXCEPT !["startup"] = NextStep("installTaps")]
            /\ UNCHANGED <<steps, tapsToInstall, local>>
       ELSE IF Len(missing) = 0
       THEN /\ pc' = [pc EXCEPT !["startup"] = NextStep("installTaps")]
            /\ steps' = steps \o <<Started("installTaps"), Finished("installTaps")>>
            /\ UNCHANGED <<tapsToInstall, local>>
       ELSE /\ pc' = [pc EXCEPT !["startup"] = "InstallTap"]
            /\ steps' = Append(steps, Started("installTaps"))
            /\ tapsToInstall' = missing
            /\ local' = [local EXCEPT !["startup"].i = 1]
    /\ UNCHANGED <<mergeVars, cacheVars, uiVars, parseVars, batchVars,
                   brewFormulae, brewCasks, uiQueue, cycle, lastPublisher, partialRead,
                   brewfilePath, brewfilePackages, brewfile, brewfileTaps, installedTaps,
                   tapped, tapCache>>

\* tracking of a tap whose installation succeeded (dataprovider.go:1289)
TrackInstalled(taps, tap, err) == IF err THEN taps ELSE Append(taps, tap)

\* the index of the tap the loop takes after tap i (dataprovider.go:1271, 1278-1290)
NextTap(i, total, err) == i + 1

\* one iteration of the loop over the taps to install, and after the last
\* the final notification (dataprovider.go:1271-1295)
InstallTap ==
    \E err \in BOOLEAN :
        LET i == local["startup"].i
            tap == tapsToInstall[i]
            next == NextTap(i, Len(tapsToInstall), err)
            last == next > Len(tapsToInstall)
        IN
        /\ pc["startup"] = "InstallTap"
        /\ uiQueue' = uiQueue
               \o << TapUpdate("Installing tap", tap),
                     TapUpdate(IF err THEN "Failed to install tap" ELSE "Tap installed", tap) >>
               \o (IF last THEN <<Notify("All taps installed")>> ELSE <<>>)
        /\ tapped' = IF err THEN tapped ELSE tapped \cup {tap}
        /\ installedTaps' = TrackInstalled(installedTaps, tap, err)
        /\ steps' = Append(steps, Attempt(tap, err))
                    \o (IF last THEN <<Finished("installTaps")>> ELSE <<>>)
        /\ local' = [local EXCEPT !["startup"] = IF last THEN NoLocals ELSE [@ EXCEPT !.i = next]]
        /\ pc' = [pc EXCEPT !["startup"] = IF last THEN NextStep("installTaps") ELSE "InstallTap"]
        /\ UNCHANGED <<mergeVars, cacheVars, uiVars, parseVars, batchVars,
                       brewFormulae, brewCasks, cycle, lastPublisher, partialRead,
                       brewfilePath, brewfilePackages, brewfile, brewfileTaps,
                       tapsToInstall, tapCache>>

\* 3. Final Load, first half: the notification and fetchTapPackages, which
\* returns early without taps or when the Brewfile cannot be read
\* (part_003:243-248, dataprovider.go:1228-1253)
FetchTapPackages ==
    \E readErr \in BOOLEAN :
        LET knownCasks == KnownCasks(tapped)
            knownFormulae == KnownFormulae(tapped)
            skip == Len(brewfileTaps) = 0 \/ readErr
            tapPackages == GetTapPackages(brewfile.Packages, ExistingPackages(allPackages),
                                          knownCasks, knownFormulae)
        IN
        /\ pc["startup"] = "fetchTapPackages"
        /\ uiQueue' = Append(uiQueue, Notify("Refreshing tap packages..."))
        /\ allPackages' = IF skip THEN allPackages
                          ELSE fetchTapPackages(allPackages, brewfile.Packages,
                                                knownCasks, knownFormulae)
        /\ tapCache' = IF skip THEN tapCache ELSE SaveTapPackages(tapCache, tapPackages)
        /\ steps' = steps \o << Started("fetchTapPackages"),
                               IF skip THEN Skipped("fetchTapPackages")
                               ELSE Finished("fetchTapPackages") >>
        /\ pc' = [pc EXCEPT !["startup"] = NextStep("fetchTapPackages")]
        /\ UNCHANGED <<dpDocs, isLinux, mstage, firstCatalog, cacheVars, uiVars, parseVars,
                       batchVars, brewFormulae, brewCasks, local, cycle, lastPublisher,
                       partialRead, brewfilePath, brewfilePackages, brewfile, brewfileTaps,
                       installedTaps, tapped, tapsToInstall>>

\* 3. Final Load, second half: loadBrewfilePackages(false) and the update
\* that shows its result (part_003:251-257)
LoadResolved ==
    \E readErr \in BOOLEAN, formulaErr \in BOOLEAN, fresh \in BOOLEAN :
        LET casks == brewCasks
            formulae == IF formulaErr THEN {} ELSE brewFormulae
            tapPackages ==
                LoadTapPackages(FALSE, brewfile, allPackages, <<>>, CachedPackages(tapCache, fresh),
                                KnownCasks(tapped), KnownFormulae(tapped))
        IN
        /\ pc["startup"] = "loadResolved"
        /\ IF readErr
           THEN /\ ~formulaErr /\ ~fresh
                /\ UNCHANGED <<brewfileTaps, brewfilePackages, tapCache, uiQueue>>
           ELSE /\ brewfileTaps' = brewfile.Taps
                /\ brewfilePackages' =
                       loadBrewfilePackages(brewfile, allPackages, <<>>, tapPackages, casks, formulae)
                /\ tapCache' = SaveTapPackages(tapCache, tapPackages)
                /\ uiQueue' = Append(uiQueue, SetResults("All packages loaded"))
        /\ steps' = steps \o << Started("loadResolved"),
                               IF readErr THEN Skipped("loadResolved")
                               ELSE Finished("loadResolved") >>
        /\ pc' = [pc EXCEPT !["startup"] = NextStep("loadResolved")]
        /\ UNCHANGED <<mergeVars, cacheVars, uiVars, parseVars, batchVars,
                       brewFormulae, brewCasks, local, cycle, lastPublisher, partialRead,
                       brewfilePath, brewfile, installedTaps, tapped, tapsToInstall>>

\* updateHomeBrew in the startup goroutine: the notification, `brew update`
\* and the notification of its outcome (part_003:137-150, 261)
UpdateHomebrewAtStartup ==
    \E err \in BOOLEAN :
        /\ pc["startup"] = "updateHomeBrew"
        /\ uiQueue' = uiQueue \o
               << Notify("Updating Homebrew formulae..."),
                  Notify(IF err THEN "Could not update Homebrew formulae"
                         ELSE "Homebrew formulae updated successfully") >>
        /\ steps' = Append(steps, Started("updateHomeBrew"))
                    \o (IF err THEN <<Finished("updateHomeBrew")>> ELSE <<>>)
        /\ pc' = [pc EXCEPT !["startup"] = IF err THEN "done" ELSE "forceRefreshResults"]
        /\ UNCHANGED <<mergeVars, cacheVars, uiVars, parseVars, batchVars,
                       brewFormulae, brewCasks, local, cycle, lastPublisher, partialRead,
                       brewfilePath, brewfilePackages, brewfile, brewfileTaps, installedTaps,
                       tapped, tapsToInstall, tapCache>>

\* forceRefreshResults, first half: SetupData(true), whose error is
\* dropped, and GetPackages (dataprovider.go:814-815)
RefreshCatalog ==
    \E failAt \in 1..(Len(FetchOrder) + 1) :
        LET got == FetchedSources(failAt) IN
        /\ pc["startup"] = "forceRefreshResults"
        /\ installedFormulae' = IF "GetInstalledFormulae" \in got
                                THEN InstalledFormulaeDoc(brewFormulae) ELSE installedFormulae
        /\ remoteFormulae' = IF "GetRemoteFormulae" \in got THEN RemoteFormulaeDoc
                             ELSE remoteFormulae
        /\ formulaeAnalytics' = IF "GetFormulaeAnalytics" \in got THEN FormulaAnalyticsDoc
                                ELSE formulaeAnalytics
        /\ installedCasks' = IF "GetInstalledCasks" \in got
                             THEN InstalledCasksDoc(brewCasks) ELSE installedCasks
        /\ remoteCasks' = IF "GetRemoteCasks" \in got THEN RemoteCasksDoc ELSE remoteCasks
        /\ caskAnalytics' = IF "GetCaskAnalytics" \in got THEN CaskAnalyticsDoc
                            ELSE caskAnalytics
        /\ allPackages' = GetPackages(allPackages, isLinux, installedFormulae',
                                      remoteFormulae', formulaeAnalytics',
                                      installedCasks', remoteCasks', caskAnalytics')
        /\ pc' = [pc EXCEPT !["startup"] = "refreshBrewfile"]
        /\ UNCHANGED <<isLinux, mstage, firstCatalog, cacheVars, uiVars, parseVars,
                       batchVars, manifestVars, brewFormulae, brewCasks, uiQueue, local,
                       cycle, lastPublisher, partialRead>>

\* mutant: a call that cannot read the Brewfile clears what it would
\* have written
OnReadError_cleared(err, old, new) == IF err THEN <<>> ELSE new

\* `if err != nil { return }` after parseBrewfileWithTaps: what the call
\* would have written keeps its old value (dataprovider.go:1080-1083,
\* 1233-1236)
OnReadError(err, old, new) == IF err THEN old ELSE new

\* the line of the log for a call of the refresh that parses the Brewfile
Reparse(call, err) ==
    [step |-> call, event |-> IF err THEN "readFailed" ELSE "returned", tap |-> ""]

\* forceRefreshResults in Brewfile mode, second half: fetchTapPackages,
\* loadBrewfilePackages(false), each of which reads the Brewfile, the copy
\* to *s.filteredPackages and the queued search (dataprovider.go:818-821,
\* 837-839)
RefreshBrewfile ==
    \E fetchErr \in BOOLEAN, readErr \in BOOLEAN, formulaErr \in BOOLEAN :
        LET casks == brewCasks
            formulae == IF formulaErr THEN {} ELSE brewFormulae
            knownCasks == KnownCasks(tapped)
            knownFormulae == KnownFormulae(tapped)
            noTaps == Len(brewfileTaps) = 0
            skip == noTaps \/ fetchErr
            fetched == GetTapPackages(brewfile.Packages, ExistingPackages(allPackages),
                                      knownCasks, knownFormulae)
            saved == IF skip THEN tapCache ELSE SaveTapPackages(tapCache, fetched)
            tapPackages == LoadTapPackages(FALSE, brewfile, allPackages', <<>>,
                                           CachedPackages(saved, TRUE), knownCasks,
                                           knownFormulae)
        IN
        /\ pc["startup"] = "refreshBrewfile"
        /\ readErr => ~formulaErr
        /\ noTaps => ~fetchErr
        /\ allPackages' = IF noTaps THEN allPackages
                          ELSE OnReadError(fetchErr, allPackages,
                                           fetchTapPackages(allPackages, brewfile.Packages,
                                                            knownCasks, knownFormulae))
        /\ brewfileTaps' = OnReadError(readErr, brewfileTaps, brewfile.Taps)
        /\ brewfilePackages' =
               OnReadError(readErr, brewfilePackages,
                           loadBrewfilePackages(brewfile, allPackages', <<>>, tapPackages,
                                                casks, formulae))
        /\ tapCache' = IF readErr THEN saved ELSE SaveTapPackages(saved, tapPackages)
        /\ filteredPackages' = brewfilePackages'
        /\ uiQueue' = Append(uiQueue, Requery("startup"))
        /\ steps' = steps
                    \o (IF noTaps THEN <<>> ELSE <<Reparse("fetchTapPackages", fetchErr)>>)
                    \o <<Reparse("loadBrewfilePackages", readErr),
                         Finished("updateHomeBrew")>>
        /\ pc' = [pc EXCEPT !["startup"] = "done"]
        /\ UNCHANGED <<dpDocs, isLinux, mstage, firstCatalog, cacheVars, searchText,
                       activeFilter, sortByType, notification, parseVars, batchVars,
                       brewFormulae, brewCasks, local, cycle, lastPublisher, partialRead,
                       brewfilePath, brewfile, installedTaps, tapped, tapsToInstall>>

\* the control thread applies the update at the head of the queue; search
\* reads *s.brewfilePackages in Brewfile mode (dataprovider.go:725-728)
ApplyBrewfileUpdate ==
    LET update == Head(uiQueue) IN
    /\ uiQueue # <<>>
    /\ uiQueue' = Tail(uiQueue)
    /\ notification' = IF update.op = "search" THEN notification ELSE update.text
    /\ filteredPackages' \in
           CASE update.op = "setResults" -> {brewfilePackages}
             [] update.op = "search" ->
                    search(brewfilePackages, activeFilter, searchText, sortByType)
             [] OTHER -> {filteredPackages}
    /\ reports' = IF update.op = "tap"
                  THEN Append(reports, [tag |-> OutputTag(update.text), name |-> update.by])
                  ELSE reports
    /\ UNCHANGED <<mergeVars, cacheVars, searchText, activeFilter, sortByType,
                   brewFormulae, brewCasks, pc, local, cycle, lastPublisher, partialRead,
                   parseVars, manifestVars, batch, attempted, processed, selectedRows>>

NextManifest ==
    \/ LoadPlaceholders \/ CheckTaps \/ InstallTap \/ FetchTapPackages \/ LoadResolved
    \/ UpdateHomebrewAtStartup \/ RefreshCatalog \/ RefreshBrewfile \/ ApplyBrewfileUpdate

SpecManifest == InitManifest /\ [][NextManifest]_vars

----------------------------------------------------------------------------
(* The fetchers of the DataProvider.  One fetch is made: the cache         *)
(* directory holds a document of every source, written at minute 0, or     *)
(* lacks it; the fetch is made at minute `now`.  ensureCacheDir,           *)
(* readCacheFile, writeCacheFile and fetchFromAPI are functions of the     *)
(* repository that the fetchers call: ensureCacheDir and fetchFromAPI can  *)
(* fail, a failed write is logged.                                         *)

cacheFileInstalledCasks == "installed-casks.json"

cacheFileFormulae == "formula.json"

cacheFileCasks == "cask.json"

cacheFileAnalytics == "analytics.json"

cacheFileCaskAnalytics == "cask-analytics.json"

cacheFileTapPackages == "tap-packages.json"

analyticsMaxAge == 100

tapMaxAge == 10

\* what a fetcher returns when it fails before the live query, when the
\* live query fails, and when the cache serves the documents
FetchError(files, ran) ==
    [docs |-> <<>>, err |-> TRUE, files |-> files, ran |-> ran, wrote |-> FALSE]

FromCache(docs, files) ==
    [docs |-> docs, err |-> FALSE, files |-> files, ran |-> FALSE, wrote |-> FALSE]

\* what `brew list --cask` and `brew info --json=v2 --cask` do: the list
\* fails, prints no name, or prints names and the info fails or prints a
\* document
CaskRuns ==
    { [listErr |-> TRUE,  names |-> {},  infoErr |-> FALSE, output |-> <<>>],
      [listErr |-> FALSE, names |-> {},  infoErr |-> FALSE, output |-> <<>>],
      [listErr |-> FALSE, names |-> {1}, infoErr |-> TRUE,  output |-> <<>>],
      [listErr |-> FALSE, names |-> {1}, infoErr |-> FALSE, output |-> Garbage],
      [listErr |-> FALSE, names |-> {1}, infoErr |-> FALSE,
       output |-> <<LocalCask(1, FALSE)>>] }

\* DataProvider.GetInstalledCasks (dataprovider.go:148-195)
GetInstalledCasks(files, t, forceRefresh, dirErr, brew, writeOk) ==
    LET data == readCacheFile(files, t, cacheFileInstalledCasks, installedMaxAge)
    IN IF dirErr THEN FetchError(files, FALSE)
       ELSE IF ~forceRefresh /\ data.hit /\ ~Unmarshal(data.data).err
       THEN FromCache(markCasksAsInstalled(data.data), files)
       ELSE IF brew.listErr \/ brew.names = {} \/ brew.infoErr
       THEN [docs |-> <<>>, err |-> FALSE, files |-> files, ran |-> TRUE, wrote |-> FALSE]
       ELSE IF Unmarshal(brew.output).err THEN FetchError(files, TRUE)
       ELSE [docs |-> markCasksAsInstalled(brew.output), err |-> FALSE,
             files |-> writeCacheFile(files, t, cacheFileInstalledCasks, brew.output, writeOk),
             ran |-> TRUE, wrote |-> writeOk]

\* what fetchFromAPI does for the formulae: fails, or returns a body
FormulaeResponses ==
    { [err |-> TRUE,  output |-> <<>>],
      [err |-> FALSE, output |-> Garbage],
      [err |-> FALSE, output |-> <<>>],
      [err |-> FALSE, output |-> <<RemoteFormula(1, [Requirements |-> <<>>, Files |-> {}])>>] }

\* DataProvider.GetRemoteFormulae (dataprovider.go:206-232)
GetRemoteFormulae(files, t, forceRefresh, dirErr, api, writeOk) ==
    LET data == readCacheFile(files, t, cacheFileFormulae, remoteMaxAge)
    IN IF dirErr THEN FetchError(files, FALSE)
       ELSE IF ~forceRefresh /\ data.hit /\ ~Unmarshal(data.data).err /\ Len(data.data) > 0
       THEN FromCache(data.data, files)
       ELSE IF api.err \/ Unmarshal(api.output).err THEN FetchError(files, TRUE)
       ELSE [docs |-> api.output, err |-> FALSE,
             files |-> writeCacheFile(files, t, cacheFileFormulae, api.output, writeOk),
             ran |-> TRUE, wrote |-> writeOk]

CasksResponses ==
    { [err |-> TRUE,  output |-> <<>>],
      [err |-> FALSE, output |-> Garbage],
      [err |-> FALSE, output |-> <<>>],
      [err |-> FALSE, output |-> <<RemoteCask(2, <<>>)>>] }

\* DataProvider.GetRemoteCasks (dataprovider.go:235-261)
GetRemoteCasks(files, t, forceRefresh, dirErr, api, writeOk) ==
    LET data == readCacheFile(files, t, cacheFileCasks, remoteMaxAge)
    IN IF dirErr THEN FetchError(files, FALSE)
       ELSE IF ~forceRefresh /\ data.hit /\ ~Unmarshal(data.data).err /\ Len(data.data) > 0
       THEN FromCache(data.data, files)
       ELSE IF api.err \/ Unmarshal(api.output).err THEN FetchError(files, TRUE)
       ELSE [docs |-> api.output, err |-> FALSE,
             files |-> writeCacheFile(files, t, cacheFileCasks, api.output, writeOk),
             ran |-> TRUE, wrote |-> writeOk]

\* models.AnalyticsItem of a formula or of a cask; 0 is the empty name
\* (formula.go:68-74)
AnalyticsItem(formula, cask, number) ==
    [Number |-> number, Formula |-> formula, Cask |-> cask, Count |-> "56"]

AnalyticsResponses ==
    { [err |-> TRUE,  output |-> <<>>],
      [err |-> FALSE, output |-> Garbage],
      [err |-> FALSE, output |-> <<>>],
      [err |-> FALSE, output |-> <<AnalyticsItem(1, 0, 1)>>],
      [err |-> FALSE, output |-> <<AnalyticsItem(0, 2, 1), AnalyticsItem(0, 0, 2)>>] }

\* result[f.Formula] = f over the items (dataprovider.go:273-276, 292-295)
ByFormula(items) ==
    [name \in {items[i].Formula : i \in 1..Len(items)} |->
        items[CHOOSE i \in 1..Len(items) :
                 /\ items[i].Formula = name
                 /\ \A j \in 1..Len(items) : items[j].Formula = name => j <= i]]

\* result[c.Cask] = c over the items with a cask name
\* (dataprovider.go:311-316, 332-337)
ByCask(items) ==
    [name \in {items[i].Cask : i \in 1..Len(items)} \ {0} |->
        items[CHOOSE i \in 1..Len(items) :
                 /\ items[i].Cask = name
                 /\ \A j \in 1..Len(items) : items[j].Cask = name => j <= i]]

\* DataProvider.GetFormulaeAnalytics (dataprovider.go:264-299)
GetFormulaeAnalytics(files, t, forceRefresh, dirErr, api, writeOk) ==
    LET data == readCacheFile(files, t, cacheFileAnalytics, analyticsMaxAge)
    IN IF dirErr THEN FetchError(files, FALSE)
       ELSE IF ~forceRefresh /\ data.hit /\ ~Unmarshal(data.data).err /\ Len(data.data) > 0
       THEN FromCache(ByFormula(data.data), files)
       ELSE IF api.err \/ Unmarshal(api.output).err THEN FetchError(files, TRUE)
       ELSE [docs |-> ByFormula(api.output), err |-> FALSE,
             files |-> writeCacheFile(files, t, cacheFileAnalytics, api.output, writeOk),
             ran |-> TRUE, wrote |-> writeOk]

\* DataProvider.GetCaskAnalytics (dataprovider.go:302-341)
GetCaskAnalytics(files, t, forceRefresh, dirErr, api, writeOk) ==
    LET data == readCacheFile(files, t, cacheFileCaskAnalytics, analyticsMaxAge)
    IN IF dirErr THEN FetchError(files, FALSE)
       ELSE IF ~forceRefresh /\ data.hit /\ ~Unmarshal(data.data).err /\ Len(data.data) > 0
       THEN FromCache(ByCask(data.data), files)
       ELSE IF api.err \/ Unmarshal(api.output).err THEN FetchError(files, TRUE)
       ELSE [docs |-> ByCask(api.output), err |-> FALSE,
             files |-> writeCacheFile(files, t, cacheFileCaskAnalytics, api.output, writeOk),
             ran |-> TRUE, wrote |-> writeOk]

\* DataProvider.GetTapPackages for the entry of tap formula 3, none of the
\* catalog: brew resolves the formula or fails; dirErr keeps the result
\* from the cache (dataprovider.go:346-440)
GetTapPackagesOf(files, t, forceRefresh, dirErr, resolves, writeOk) ==
    LET data == readCacheFile(files, t, cacheFileTapPackages, tapMaxAge)
        cachedPackages == IF ~forceRefresh /\ data.hit /\ ~Unmarshal(data.data).err
                          THEN ExistingPackages(data.data) ELSE EmptyMap
        entries == <<BrewfileEntry(3, FALSE, FALSE)>>
        packages == GetTapPackagesFrom(entries, EmptyMap, cachedPackages, {},
                                       IF resolves THEN {3} ELSE {})
        write == writeOk /\ ~dirErr
    IN [docs |-> packages, err |-> FALSE,
        files |-> writeCacheFile(files, t, cacheFileTapPackages, packages, write),
        ran |-> 3 \notin DOMAIN cachedPackages, wrote |-> write]

CacheFileNames ==
    {cacheFileInstalled, cacheFileInstalledCasks, cacheFileFormulae, cacheFileCasks,
     cacheFileAnalytics, cacheFileCaskAnalytics, cacheFileTapPackages}

\* a document of each source as a fetch writes it
ValidDocument(name) ==
    CASE name = cacheFileInstalled -> <<LocalFormula(2, FALSE, TRUE)>>
      [] name = cacheFileInstalledCasks -> <<LocalCask(2, FALSE)>>
      [] name = cacheFileFormulae -> <<RemoteFormula(2, [Requirements |-> <<>>, Files |-> {}])>>
      [] name = cacheFileCasks -> <<RemoteCask(1, <<>>)>>
      [] name = cacheFileAnalytics -> <<AnalyticsItem(2, 0, 1)>>
      [] name = cacheFileCaskAnalytics -> <<AnalyticsItem(0, 1, 1)>>
      [] OTHER -> <<FallbackPackage(3, PackageTypeFormula)>>

\* the cache directories a fetch can find: no document, or documents that
\* are no JSON, that hold an empty list, or that a fetch has written
CacheDirectories ==
    { [name \in CacheFileNames |-> NoFile],
      [name \in CacheFileNames |-> [exists |-> TRUE, data |-> Garbage, mtime |-> 0]],
      [name \in CacheFileNames |-> [exists |-> TRUE, data |-> <<>>, mtime |-> 0]],
      [name \in CacheFileNames |-> [exists |-> TRUE, data |-> ValidDocument(name), mtime |-> 0]] }

\* the minutes after which the fetch is made
FetchAges == {0, 9, 10, 11, 99, 100, 999, 1000}

NoFetch ==
    [done |-> FALSE, source |-> "", file |-> "", maxAge |-> 0, forceRefresh |-> FALSE,
     dirErr |-> FALSE, liveOk |-> FALSE, body |-> <<>>, writeOk |-> FALSE,
     ran |-> FALSE, err |-> FALSE, docs |-> <<>>, before |-> NoFile]

InitFetch ==
    \E files \in CacheDirectories, age \in FetchAges :
        /\ installedFormulae = <<>> /\ remoteFormulae = <<>> /\ formulaeAnalytics = EmptyMap
        /\ installedCasks = <<>> /\ remoteCasks = <<>> /\ caskAnalytics = EmptyMap
        /\ allPackages = <<>>
        /\ isLinux = FALSE
        /\ mstage = "fetch"
        /\ firstCatalog = <<>>
        /\ cacheFiles = files
        /\ now = age
        /\ lastFetch = NoFetch
        /\ lastWritten = [any |-> FALSE, bytes |-> <<>>, at |-> 0]
        /\ SessionUnused
        /\ AppUnused

\* the fetch has returned r: the cache directory is as the fetcher left it
Fetched(source, file, maxAge, forceRefresh, dirErr, liveOk, body, writeOk, r) ==
    /\ mstage = "fetch" /\ ~lastFetch.done
    /\ cacheFiles' = r.files
    /\ lastFetch' = [done |-> TRUE, source |-> source, file |-> file, maxAge |-> maxAge,
                     forceRefresh |-> forceRefresh, dirErr |-> dirErr, liveOk |-> liveOk,
                     body |-> body, writeOk |-> writeOk, ran |-> r.ran, err |-> r.err,
                     docs |-> r.docs, before |-> cacheFiles[file]]
    /\ UNCHANGED <<allPackages, isLinux, mstage, firstCatalog, now, lastWritten, appVars,
                   sessionVars>>

\* SetupData: installed, err := d.GetInstalledFormulae(forceRefresh)
\* (dataprovider.go:537-541)
FetchInstalledFormulaeDoc ==
    \E forceRefresh \in BOOLEAN, dirErr \in BOOLEAN, brew \in BrewRuns \cup
           {[err |-> FALSE, output |-> Garbage]}, writeOk \in BOOLEAN :
        LET r == GetInstalledFormulae(cacheFiles, now, forceRefresh, dirErr, brew, writeOk) IN
        /\ Fetched("GetInstalledFormulae", cacheFileInstalled, installedMaxAge, forceRefresh,
                   dirErr, ~brew.err /\ ~Unmarshal(brew.output).err, brew.output, writeOk,
                   [docs |-> r.formulae, err |-> r.err, files |-> r.files, ran |-> r.ran])
        /\ installedFormulae' = IF r.err THEN installedFormulae ELSE r.formulae
        /\ UNCHANGED <<remoteFormulae, formulaeAnalytics, installedCasks, remoteCasks,
                       caskAnalytics>>

\* SetupData: remote, err := d.GetRemoteFormulae(forceRefresh) (dataprovider.go:544-548)
FetchRemoteFormulae ==
    \E forceRefresh \in BOOLEAN, dirErr \in BOOLEAN, api \in FormulaeResponses,
       writeOk \in BOOLEAN :
        LET r == GetRemoteFormulae(cacheFiles, now, forceRefresh, dirErr, api, writeOk) IN
        /\ Fetched("GetRemoteFormulae", cacheFileFormulae, remoteMaxAge, forceRefresh,
                   dirErr, ~api.err /\ ~Unmarshal(api.output).err, api.output, writeOk, r)
        /\ remoteFormulae' = IF r.err THEN remoteFormulae ELSE r.docs
        /\ UNCHANGED <<installedFormulae, formulaeAnalytics, installedCasks, remoteCasks,
                       caskAnalytics>>

\* SetupData: analytics, err := d.GetFormulaeAnalytics(forceRefresh)
\* (dataprovider.go:551-555)
FetchFormulaeAnalytics ==
    \E forceRefresh \in BOOLEAN, dirErr \in BOOLEAN, api \in AnalyticsResponses,
       writeOk \in BOOLEAN :
        LET r == GetFormulaeAnalytics(cacheFiles, now, forceRefresh, dirErr, api, writeOk) IN
        /\ Fetched("GetFormulaeAnalytics", cacheFileAnalytics, analyticsMaxAge, forceRefresh,
                   dirErr, ~api.err /\ ~Unmarshal(api.output).err, api.output, writeOk, r)
        /\ formulaeAnalytics' = IF r.err THEN formulaeAnalytics ELSE r.docs
        /\ UNCHANGED <<installedFormulae, remoteFormulae, installedCasks, remoteCasks,
                       caskAnalytics>>

\* SetupData: installedCasks, err := d.GetInstalledCasks(forceRefresh)
\* (dataprovider.go:558-562)
FetchInstalledCasks ==
    \E forceRefresh \in BOOLEAN, dirErr \in BOOLEAN, brew \in CaskRuns, writeOk \in BOOLEAN :
        LET r == GetInstalledCasks(cacheFiles, now, forceRefresh, dirErr, brew, writeOk) IN
        /\ Fetched("GetInstalledCasks", cacheFileInstalledCasks, installedMaxAge,
                   forceRefresh, dirErr,
                   ~brew.listErr /\ ~brew.infoErr /\ ~Unmarshal(brew.output).err,
                   brew.output, writeOk, r)
        /\ installedCasks' = IF r.err THEN installedCasks ELSE r.docs
        /\ UNCHANGED <<installedFormulae, remoteFormulae, formulaeAnalytics, remoteCasks,
                       caskAnalytics>>

\* SetupData: remoteCasks, err := d.GetRemoteCasks(forceRefresh) (dataprovider.go:565-569)
FetchRemoteCasks ==
    \E forceRefresh \in BOOLEAN, dirErr \in BOOLEAN, api \in CasksResponses,
       writeOk \in BOOLEAN :
        LET r == GetRemoteCasks(cacheFiles, now, forceRefresh, dirErr, api, writeOk) IN
        /\ Fetched("GetRemoteCasks", cacheFileCasks, remoteMaxAge, forceRefresh,
                   dirErr, ~api.err /\ ~Unmarshal(api.output).err, api.output, writeOk, r)
        /\ remoteCasks' = IF r.err THEN remoteCasks ELSE r.docs
        /\ UNCHANGED <<installedFormulae, remoteFormulae, formulaeAnalytics, installedCasks,
                       caskAnalytics>>

\* SetupData: caskAnalytics, err := d.GetCaskAnalytics(forceRefresh)
\* (dataprovider.go:572-576)
FetchCaskAnalytics ==
    \E forceRefresh \in BOOLEAN, dirErr \in BOOLEAN, api \in AnalyticsResponses,
       writeOk \in BOOLEAN :
        LET r == GetCaskAnalytics(cacheFiles, now, forceRefresh, dirErr, api, writeOk) IN
        /\ Fetched("GetCaskAnalytics", cacheFileCaskAnalytics, analyticsMaxAge, forceRefresh,
                   dirErr, ~api.err /\ ~Unmarshal(api.output).err, api.output, writeOk, r)
        /\ caskAnalytics' = IF r.err THEN caskAnalytics ELSE r.docs
        /\ UNCHANGED <<installedFormulae, remoteFormulae, formulaeAnalytics, installedCasks,
                       remoteCasks>>

\* tapPackages, _ := s.dataProvider.GetTapPackages(...) (dataprovider.go:1199, 1245)
FetchTapPackagesDoc ==
    \E forceRefresh \in BOOLEAN, dirErr \in BOOLEAN, resolves \in BOOLEAN,
       writeOk \in BOOLEAN :
        LET r == GetTapPackagesOf(cacheFiles, now, forceRefresh, dirErr, resolves, writeOk) IN
        /\ Fetched("GetTapPackages", cacheFileTapPackages, tapMaxAge, forceRefresh,
                   dirErr, resolves, r.docs, writeOk, r)
        /\ UNCHANGED dpDocs

NextFetch ==
    \/ FetchInstalledFormulaeDoc \/ FetchRemoteFormulae \/ FetchFormulaeAnalytics
    \/ FetchInstalledCasks \/ FetchRemoteCasks \/ FetchCaskAnalytics
    \/ FetchTapPackagesDoc

SpecFetch == InitFetch /\ [][NextFetch]_vars

-----------------------------------------------------------------------------
(* Boot.  Homebrew has some formulae and casks installed, and the file at   *)
(* s.brewfilePath, if one is given, declares one of the manifests.          *)
(* GetBrewVersion, each fetch of SetupData and os.ReadFile can fail.        *)

BootFormulae == {1, 3}

\* a step of Boot has returned, with an error or without
BootStep(step, err) ==
    [step |-> step, event |-> IF err THEN "failed" ELSE "finished", tap |-> ""]

InitBoot ==
    \E path \in {"", "Brewfile"}, manifest \in Manifests, linux \in BOOLEAN,
       formulae \in SUBSET BootFormulae, casks \in SUBSET {2} :
        /\ installedFormulae = <<>> /\ remoteFormulae = <<>> /\ formulaeAnalytics = EmptyMap
        /\ installedCasks = <<>> /\ remoteCasks = <<>> /\ caskAnalytics = EmptyMap
        /\ allPackages = <<>>
        /\ isLinux = linux
        /\ mstage = "boot"
        /\ firstCatalog = <<>>
        /\ CacheUnused
        /\ filteredPackages = <<>>
        /\ searchText = ""
        /\ activeFilter = FilterNone
        /\ sortByType = FALSE
        /\ notification = ""
        /\ brewFormulae = formulae /\ brewCasks = casks
        /\ uiQueue = <<>>
        /\ pc = [w \in Workers |-> "idle"]
        /\ local = [w \in Workers |-> NoLocals]
        /\ cycle = [w \in Workers |-> NoCycle]
        /\ lastPublisher = "none"
        /\ partialRead = FALSE
        /\ ParseUnused
        /\ brewfilePath = path
        /\ brewfilePackages = <<>>
        /\ brewfile = IF path = "" THEN [Taps |-> <<>>, Packages |-> <<>>] ELSE manifest
        /\ brewfileTaps = <<>> /\ installedTaps = <<>> /\ tapped = {}
        /\ tapsToInstall = <<>> /\ tapCache = <<>> /\ steps = <<>>
        /\ BatchUnused

\* the error Boot returns, "" for nil (part_003:106-109, 113-116, 125-133)
BootError_fetch(versionErr, setupErr, brewfileMode, readErr) ==
    IF versionErr THEN "failed to get Homebrew version"
    ELSE IF setupErr THEN "failed to load Homebrew data"
    ELSE IF brewfileMode /\ readErr THEN "failed to parse Brewfile"
    ELSE ""

BootError(versionErr, setupErr, brewfileMode, readErr) ==
    IF versionErr THEN "failed to get Homebrew version"
    ELSE IF brewfileMode /\ readErr THEN "failed to parse Brewfile"
    ELSE ""

\* AppService.Boot (part_003:105-134)
Boot ==
    \E versionErr \in BOOLEAN, failAt \in 1..(Len(FetchOrder) + 1), readErr \in BOOLEAN :
        LET got == IF versionErr THEN {} ELSE FetchedSources(failAt)
            setupErr == failAt <= Len(FetchOrder)
            brewfileMode == brewfilePath # ""
            err == BootError(versionErr, setupErr, brewfileMode, readErr)
        IN
        /\ mstage = "boot"
        /\ installedFormulae' = IF "GetInstalledFormulae" \in got
                                THEN InstalledFormulaeDoc(brewFormulae) ELSE installedFormulae
        /\ remoteFormulae' = IF "GetRemoteFormulae" \in got THEN RemoteFormulaeDoc
                             ELSE remoteFormulae
        /\ formulaeAnalytics' = IF "GetFormulaeAnalytics" \in got THEN FormulaAnalyticsDoc
                                ELSE formulaeAnalytics
        /\ installedCasks' = IF "GetInstalledCasks" \in got
                             THEN InstalledCasksDoc(brewCasks) ELSE installedCasks
        /\ remoteCasks' = IF "GetRemoteCasks" \in got THEN RemoteCasksDoc ELSE remoteCasks
        /\ caskAnalytics' = IF "GetCaskAnalytics" \in got THEN CaskAnalyticsDoc
                            ELSE caskAnalytics
        /\ allPackages' = IF versionErr THEN allPackages
                          ELSE GetPackages(allPackages, isLinux, installedFormulae',
                                           remoteFormulae', formulaeAnalytics',
                                           installedCasks', remoteCasks', caskAnalytics')
        /\ filteredPackages' = IF versionErr THEN filteredPackages ELSE allPackages'
        /\ brewfileTaps' = IF brewfileMode /\ err = "" THEN brewfile.Taps ELSE brewfileTaps
        /\ steps' = <<BootStep("GetBrewVersion", versionErr)>>
                    \o (IF versionErr THEN <<>>
                        ELSE <<BootStep("SetupData", setupErr), Finished("GetPackages")>>)
                    \o (IF ~versionErr /\ brewfileMode
                        THEN <<BootStep("parseBrewfileWithTaps", readErr)>> ELSE <<>>)
        /\ mstage' = IF err = "" THEN "booted" ELSE "bootError"
        /\ UNCHANGED <<isLinux, firstCatalog, cacheVars, searchText, activeFilter, sortByType,
                       notification, workerVars, parseVars, batchVars, brewfilePath,
                       brewfilePackages, brewfile, installedTaps, tapped, tapsToInstall,
                       tapCache>>

NextBoot == Boot

SpecBoot == InitBoot /\ [][NextBoot]_vars

-----------------------------------------------------------------------------
(* loadBrewfilePackages, one call.  The Brewfile declares formulae, casks   *)
(* and Flatpak applications, also under names the catalog has for another   *)
(* kind; the catalog is one GetPackages has merged, with or without the     *)
(* packages fetchTapPackages adds; the flatpak binary is installed or not.  *)
(* The call is logged with what it was asked and what brew and flatpak      *)
(* answered.                                                                *)

\* the packages of the Brewfiles read
LoadEntries ==
    { <<BrewfileEntry(1, FALSE, FALSE)>>,
      <<BrewfileEntry(2, TRUE, FALSE)>>,
      <<BrewfileEntry(2, FALSE, FALSE)>>,
      <<BrewfileEntry(1, TRUE, FALSE)>>,
      <<BrewfileEntry(3, FALSE, FALSE)>>,
      <<BrewfileEntry(4, FALSE, FALSE), BrewfileEntry(3, FALSE, FALSE)>>,
      <<BrewfileEntry(3, FALSE, FALSE), BrewfileEntry(3, TRUE, FALSE)>>,
      <<BrewfileEntry(3, TRUE, FALSE), BrewfileEntry(1, FALSE, FALSE)>>,
      <<BrewfileEntry(1, FALSE, FALSE), BrewfileEntry(1, FALSE, FALSE)>>,
      <<BrewfileEntry(2, TRUE, FALSE), BrewfileEntry(1, FALSE, FALSE)>>,
      <<BrewfileEntry(3, FALSE, TRUE)>>,
      <<BrewfileEntry(1, FALSE, TRUE)>>,
      <<BrewfileEntry(3, FALSE, TRUE), BrewfileEntry(3, FALSE, TRUE)>>,
      <<BrewfileEntry(3, FALSE, TRUE), BrewfileEntry(1, FALSE, FALSE)>>,
      <<BrewfileEntry(3, FALSE, TRUE), BrewfileEntry(3, FALSE, FALSE)>> }

\* the catalogs GetPackages has merged: formula 1 installed and cask 2;
\* formula 1 and cask 2 installed; formula 2 installed, on Linux
LoadCatalogs ==
    { GetPackages(<<>>, FALSE, InstalledFormulaeDoc({1}), RemoteFormulaeDoc,
                  FormulaAnalyticsDoc, <<>>, RemoteCasksDoc, CaskAnalyticsDoc),
      GetPackages(<<>>, FALSE, <<>>, RemoteFormulaeDoc, FormulaAnalyticsDoc,
                  InstalledCasksDoc({2}), RemoteCasksDoc, CaskAnalyticsDoc),
      GetPackages(<<>>, TRUE, InstalledFormulaeDoc({2}), <<>>, EmptyMap,
                  <<>>, RemoteCasksDoc, CaskAnalyticsDoc) }

FlatpakRuns ==
    { NoFlatpak,
      [installed |-> TRUE, apps |-> {}, metadata |-> {}],
      [installed |-> TRUE, apps |-> {3}, metadata |-> {3}],
      [installed |-> TRUE, apps |-> {1}, metadata |-> {1, 3}] }

InitLoad ==
    \E entries \in LoadEntries, catalog \in LoadCatalogs, formulae \in SUBSET {1, 3},
       casks \in SUBSET {2, 3}, taps \in {{}, Taps}, cache \in TapCaches,
       fetched \in BOOLEAN :
        /\ installedFormulae = <<>> /\ remoteFormulae = <<>> /\ formulaeAnalytics = EmptyMap
        /\ installedCasks = <<>> /\ remoteCasks = <<>> /\ caskAnalytics = EmptyMap
        /\ allPackages = IF fetched
                         THEN fetchTapPackages(catalog, entries, KnownCasks(taps),
                                               KnownFormulae(taps))
                         ELSE catalog
        /\ isLinux = FALSE
        /\ mstage = "load"
        /\ firstCatalog = <<>>
        /\ CacheUnused
        /\ filteredPackages = <<>>
        /\ searchText = ""
        /\ activeFilter = FilterNone
        /\ sortByType = FALSE
        /\ notification = ""
        /\ brewFormulae = formulae /\ brewCasks = casks
        /\ uiQueue = <<>>
        /\ pc = [w \in Workers |-> "idle"]
        /\ local = [w \in Workers |-> NoLocals]
        /\ cycle = [w \in Workers |-> NoCycle]
        /\ lastPublisher = "none"
        /\ partialRead = FALSE
        /\ ParseUnused
        /\ brewfilePath = "Brewfile"
        /\ brewfilePackages = <<>>
        /\ brewfile = [Taps |-> <<"t1", "t2">>, Packages |-> entries]
        /\ brewfileTaps = <<"t1", "t2">> /\ installedTaps = <<>> /\ tapped = taps
        /\ tapsToInstall = <<>> /\ tapCache = cache /\ steps = <<>>
        /\ BatchUnused

\* the call of loadBrewfilePackages as the log keeps it
LoadCall(usePlaceholders, err, flatpak, cached) ==
    [step |-> "loadBrewfilePackages", event |-> IF err THEN "failed" ELSE "finished",
     tap |-> "", usePlaceholders |-> usePlaceholders, flatpak |-> flatpak,
     cached |-> cached]

\* AppService.loadBrewfilePackages (dataprovider.go:1079-1223)
LoadBrewfile ==
    \E usePlaceholders \in BOOLEAN, readErr \in BOOLEAN, flatpak \in FlatpakRuns,
       fresh \in BOOLEAN :
        LET cached == CachedPackages(tapCache, fresh)
            flatpakPackages == LoadFlatpakPackages(brewfile, flatpak)
            tapPackages ==
                LoadTapPackages(usePlaceholders, brewfile, allPackages, flatpakPackages,
                                cached, KnownCasks(tapped), KnownFormulae(tapped))
        IN
        /\ mstage = "load"
        /\ IF readErr
           THEN UNCHANGED <<brewfileTaps, brewfilePackages, tapCache>>
           ELSE /\ brewfileTaps' = brewfile.Taps
                /\ brewfilePackages' =
                       loadBrewfilePackages(brewfile, allPackages, flatpakPackages,
                                            tapPackages, brewCasks, brewFormulae)
                /\ tapCache' = IF usePlaceholders THEN tapCache
                               ELSE SaveTapPackages(tapCache, tapPackages)
        /\ steps' = Append(steps, LoadCall(usePlaceholders, readErr, flatpak, cached))
        /\ mstage' = "loaded"
        /\ UNCHANGED <<dpDocs, allPackages, isLinux, firstCatalog, cacheVars, uiVars,
                       workerVars, parseVars, batchVars, brewfilePath, brewfile,
                       installedTaps, tapped, tapsToInstall>>

NextLoad == LoadBrewfile

SpecLoad == InitLoad /\ [][NextLoad]_vars

-----------------------------------------------------------------------------
(* SetupData over the cache directory.  Boot calls SetupData(false) and    *)
(* GetPackages; forceRefreshResults, which follows every install, update   *)
(* and remove, calls SetupData(true) and GetPackages.  The application     *)
(* runs without a Brewfile.  Every fetch of SetupData is logged in steps   *)
(* with the cache document it found.                                       *)

\* the sources whose live query fails
DownSets == SUBSET {FetchOrder[k] : k \in 1..Len(FetchOrder)}

\* what the live query of source returns: a failure when the source is
\* down, else the document of what Homebrew has installed or the document
\* the API serves
LiveFormulae(down, formulae) ==
    [err |-> "GetInstalledFormulae" \in down,
     output |-> IF "GetInstalledFormulae" \in down THEN <<>>
                ELSE LET s == SortedNames(formulae)
                     IN [i \in 1..Len(s) |-> LocalFormula(s[i], FALSE, TRUE)]]

LiveCasks(down, casks) ==
    [listErr |-> "GetInstalledCasks" \in down, names |-> casks, infoErr |-> FALSE,
     output |-> LET s == SortedNames(casks)
                IN [i \in 1..Len(s) |-> LocalCask(s[i], FALSE)]]

LiveAPI(down, source, body) ==
    [err |-> source \in down, output |-> IF source \in down THEN <<>> ELSE body]

\* one fetch of SetupData on the cache directory files
RunFetch(source, files, t, forceRefresh, down, formulae, casks) ==
    CASE source = "GetInstalledFormulae" ->
             LET r == GetInstalledFormulae(files, t, forceRefresh, FALSE,
                                           LiveFormulae(down, formulae), TRUE)
             IN [docs |-> r.formulae, err |-> r.err, files |-> r.files, ran |-> r.ran]
      [] source = "GetRemoteFormulae" ->
             GetRemoteFormulae(files, t, forceRefresh, FALSE,
                               LiveAPI(down, source, RemoteFormulaeDoc), TRUE)
      [] source = "GetFormulaeAnalytics" ->
             GetFormulaeAnalytics(files, t, forceRefresh, FALSE,
                                  LiveAPI(down, source, <<AnalyticsItem(1, 0, 1)>>), TRUE)
      [] source = "GetInstalledCasks" ->
             GetInstalledCasks(files, t, forceRefresh, FALSE, LiveCasks(down, casks), TRUE)
      [] source = "GetRemoteCasks" ->
             GetRemoteCasks(files, t, forceRefresh, FALSE,
                            LiveAPI(down, source, RemoteCasksDoc), TRUE)
      [] OTHER ->
             GetCaskAnalytics(files, t, forceRefresh, FALSE,
                              LiveAPI(down, source, <<AnalyticsItem(0, 2, 1)>>), TRUE)

\* the cache document of each fetcher and the age at which it expires
SourceFile(source) ==
    CASE source = "GetInstalledFormulae" -> cacheFileInstalled
      [] source = "GetRemoteFormulae" -> cacheFileFormulae
      [] source = "GetFormulaeAnalytics" -> cacheFileAnalytics
      [] source = "GetInstalledCasks" -> cacheFileInstalledCasks
      [] source = "GetRemoteCasks" -> cacheFileCasks
      [] OTHER -> cacheFileCaskAnalytics

SourceMaxAge(source) ==
    CASE source \in {"GetInstalledFormulae", "GetInstalledCasks"} -> installedMaxAge
      [] source \in {"GetRemoteFormulae", "GetRemoteCasks"} -> remoteMaxAge
      [] OTHER -> analyticsMaxAge

\* SetupData(forceRefresh) from its fetch number k on: the fetches made, in
\* order; the first fetch that fails is the last (dataprovider.go:536-580)
RECURSIVE SetupDataFrom(_, _, _, _, _, _, _)
SetupDataFrom(k, files, t, forceRefresh, down, formulae, casks) ==
    IF k > Len(FetchOrder) THEN <<>>
    ELSE LET source == FetchOrder[k]
             r == RunFetch(source, files, t, forceRefresh, down, formulae, casks)
             fetch == [source |-> source, forceRefresh |-> forceRefresh,
                       before |-> files[SourceFile(source)],
                       maxAge |-> SourceMaxAge(source),
                       docs |-> r.docs, err |-> r.err, ran |-> r.ran, files |-> r.files,
                       liveFailed |-> r.ran /\ source \in down]
         IN IF r.err THEN <<fetch>>
            ELSE <<fetch>> \o SetupDataFrom(k + 1, r.files, t, forceRefresh, down,
                                            formulae, casks)

\* the document of source after the fetches: the one the fetch returned,
\* the old one if the fetch failed or was not made
Assigned(fetches, source, old) ==
    IF \E k \in 1..Len(fetches) : fetches[k].source = source /\ ~fetches[k].err
    THEN fetches[CHOOSE k \in 1..Len(fetches) : fetches[k].source = source].docs
    ELSE old

\* the line of the log for a fetch: what it found in the cache, whether its
\* live query was made and failed, and what it returned
SetupStep(fetch) ==
    [step |-> "SetupData", tap |-> "",
     event |-> IF fetch.err THEN "failed" ELSE IF fetch.ran THEN "live" ELSE "cache",
     source |-> fetch.source, forceRefresh |-> fetch.forceRefresh,
     before |-> fetch.before, maxAge |-> fetch.maxAge,
     liveFailed |-> fetch.liveFailed, docs |-> fetch.docs]

InitRefresh ==
    \E files \in CacheDirectories, age \in FetchAges,
       formulae \in SUBSET {1}, casks \in SUBSET {2} :
        /\ installedFormulae = <<>> /\ remoteFormulae = <<>> /\ formulaeAnalytics = EmptyMap
        /\ installedCasks = <<>> /\ remoteCasks = <<>> /\ caskAnalytics = EmptyMap
        /\ allPackages = <<>>
        /\ isLinux = FALSE
        /\ mstage = "setup"
        /\ firstCatalog = <<>>
        /\ cacheFiles = files
        /\ now = age
        /\ lastFetch = NoFetch
        /\ lastWritten = [any |-> FALSE, bytes |-> <<>>, at |-> 0]
        /\ SessionUnused
        /\ filteredPackages = <<>>
        /\ searchText = ""
        /\ activeFilter = FilterNone
        /\ sortByType = FALSE
        /\ notification = ""
        /\ brewFormulae = formulae /\ brewCasks = casks
        /\ uiQueue = <<>>
        /\ pc = [w \in Workers |-> "idle"]
        /\ local = [w \in Workers |-> NoLocals]
        /\ cycle = [w \in Workers |-> NoCycle]
        /\ lastPublisher = "none"
        /\ partialRead = FALSE

\* the six documents and the cache directory after the fetches
SetupDataDone(fetches) ==
    /\ installedFormulae' = Assigned(fetches, "GetInstalledFormulae", installedFormulae)
    /\ remoteFormulae' = Assigned(fetches, "GetRemoteFormulae", remoteFormulae)
    /\ formulaeAnalytics' = Assigned(fetches, "GetFormulaeAnalytics", formulaeAnalytics)
    /\ installedCasks' = Assigned(fetches, "GetInstalledCasks", installedCasks)
    /\ remoteCasks' = Assigned(fetches, "GetRemoteCasks", remoteCasks)
    /\ caskAnalytics' = Assigned(fetches, "GetCaskAnalytics", caskAnalytics)
    /\ cacheFiles' = fetches[Len(fetches)].files
    /\ steps' = steps \o [k \in 1..Len(fetches) |-> SetupStep(fetches[k])]

\* Boot: SetupData(false), whose error is printed as a warning, then
\* GetPackages and the first list (part_003:113-120)
BootSetupData ==
    \E down \in DownSets :
        LET fetches == SetupDataFrom(1, cacheFiles, now, FALSE, down, brewFormulae, brewCasks)
        IN
        /\ mstage = "setup"
        /\ SetupDataDone(fetches)
        /\ allPackages' =
               GetPackages(allPackages, isLinux, installedFormulae', remoteFormulae',
                           formulaeAnalytics', installedCasks', remoteCasks',
                           caskAnalytics')
        /\ filteredPackages' = allPackages'
        /\ mstage' = "ready"
        /\ UNCHANGED <<isLinux, firstCatalog, now, lastFetch, lastWritten, searchText,
                       activeFilter, sortByType, notification, workerVars, parseVars,
                       brewfilePath, brewfilePackages, brewfile, brewfileTaps, installedTaps,
                       tapped, tapsToInstall, tapCache, batchVars>>

\* forceRefreshResults after an install, an update or a remove, which has
\* changed what Homebrew has installed: SetupData(true), whose error is
\* dropped, GetPackages, the re-stamping loop and the re-query submitted
\* to the control thread (dataprovider.go:812-840)
ForceRefreshResults ==
    \E down \in DownSets, formulae \in SUBSET {1}, casks \in SUBSET {2} :
        LET fetches == SetupDataFrom(1, cacheFiles, now, TRUE, down, formulae, casks) IN
        /\ mstage = "ready"
        /\ brewFormulae' = formulae /\ brewCasks' = casks
        /\ SetupDataDone(fetches)
        /\ allPackages' =
               Restamp(GetPackages(allPackages, isLinux, installedFormulae', remoteFormulae',
                                   formulaeAnalytics', installedCasks', remoteCasks',
                                   caskAnalytics'),
                       casks, formulae)
        /\ filteredPackages' = allPackages'
        /\ uiQueue' = Append(uiQueue, Requery("install"))
        /\ mstage' = "refreshed"
        /\ UNCHANGED <<isLinux, firstCatalog, now, lastFetch, lastWritten, searchText,
                       activeFilter, sortByType, notification, pc, local, cycle,
                       lastPublisher, partialRead, parseVars,
                       brewfilePath, brewfilePackages, brewfile, brewfileTaps, installedTaps,
                       tapped, tapsToInstall, tapCache, batchVars>>

NextRefresh == BootSetupData \/ ForceRefreshResults

SpecRefresh == InitRefresh /\ [][NextRefresh]_vars

-----------------------------------------------------------------------------
(* GetTapPackages, one call: the entries requested, the packages already   *)
(* known, the cache document tap-packages.json and what `brew info` does.  *)

\* what `brew info` does: the casks and the formulae it resolves, whether
\* the command given several names fails, and whether the command given
\* one name fails
BrewInfoRuns ==
    [casks : SUBSET TapNames, formulae : SUBSET TapNames,
     batchErr : BOOLEAN, singleErr : BOOLEAN]

\* the package brew prints for name
InfoPackage(name, isCask) ==
    IF isCask THEN NewPackageFromCask(RemoteCask(ShortName(name), <<>>))
    ELSE NewPackageFromFormula(
             RemoteFormula(ShortName(name), [Requirements |-> <<>>, Files |-> {}]))

\* DataProvider.fetchSinglePackageInfo: the packages returned, none for
\* nil (dataprovider.go:503-533)
fetchSinglePackageInfo(name, isCask, brew) ==
    IF brew.singleErr \/ ShortName(name) \notin (IF isCask THEN brew.casks ELSE brew.formulae)
    THEN {}
    ELSE {InfoPackage(name, isCask)}

\* DataProvider.fetchPackagesInfo with the fallback to one query per name
\* when the query for all names fails (dataprovider.go:443-500)
fetchPackagesInfoOr(names, isCask, brew) ==
    IF names = <<>> THEN EmptyMap
    ELSE IF brew.batchErr
    THEN [name \in {n \in {names[i] : i \in 1..Len(names)} :
                       fetchSinglePackageInfo(n, isCask, brew) # {}} |->
             InfoPackage(name, isCask)]
    ELSE fetchPackagesInfo(names, isCask, IF isCask THEN brew.casks ELSE brew.formulae)

\* the `brew info` commands fetchPackagesInfo runs for names
InfoQueries(names, isCask, brew) ==
    IF names = <<>> THEN <<>>
    ELSE <<[names |-> names, isCask |-> isCask]>>
         \o (IF brew.batchErr
             THEN [i \in 1..Len(names) |-> [names |-> <<names[i]>>, isCask |-> isCask]]
             ELSE <<>>)

\* DataProvider.GetTapPackages: the packages returned, the `brew info`
\* commands run and the cache directory left (dataprovider.go:346-440)
GetTapPackagesCall(entries, existingPackages, files, t, forceRefresh, brew, dirErr, writeOk) ==
    LET data == readCacheFile(files, t, cacheFileTapPackages, tapMaxAge)
        cachedPackages == IF ~forceRefresh /\ data.hit /\ ~Unmarshal(data.data).err
                          THEN ExistingPackages(data.data) ELSE EmptyMap
        have == DOMAIN existingPackages \cup DOMAIN cachedPackages
        found == SelectSeq(entries, LAMBDA entry : entry.Name \in have)
        missingCasks == EntryNames(SelectSeq(entries, LAMBDA entry :
                            entry.Name \notin have /\ entry.IsCask))
        missingFormulae == EntryNames(SelectSeq(entries, LAMBDA entry :
                            entry.Name \notin have /\ ~entry.IsCask))
        packages ==
            [i \in 1..Len(found) |->
                IF found[i].Name \in DOMAIN existingPackages
                THEN existingPackages[found[i].Name]
                ELSE cachedPackages[found[i].Name]]
            \o FetchedOrFallback(missingCasks,
                                 fetchPackagesInfoOr(missingCasks, TRUE, brew),
                                 PackageTypeCask)
            \o FetchedOrFallback(missingFormulae,
                                 fetchPackagesInfoOr(missingFormulae, FALSE, brew),
                                 PackageTypeFormula)
    IN [packages |-> packages, err |-> FALSE,
        queries |-> InfoQueries(missingCasks, TRUE, brew)
                    \o InfoQueries(missingFormulae, FALSE, brew),
        files |-> IF Len(packages) > 0 /\ ~dirErr
                  THEN writeCacheFile(files, t, cacheFileTapPackages, packages, writeOk)
                  ELSE files]

\* the entries requested: a tap formula, a tap cask, a formula by its full
\* name, a name twice, a name as formula and as cask, a catalog formula, a
\* Flatpak application, none
TapRequests ==
    { <<>>,
      <<BrewfileEntry(3, FALSE, FALSE)>>,
      <<BrewfileEntry(3, TRUE, FALSE)>>,
      <<BrewfileEntry(4, FALSE, FALSE)>>,
      <<BrewfileEntry(3, FALSE, FALSE), BrewfileEntry(3, FALSE, FALSE)>>,
      <<BrewfileEntry(3, FALSE, FALSE), BrewfileEntry(3, TRUE, FALSE)>>,
      <<BrewfileEntry(1, FALSE, FALSE), BrewfileEntry(3, TRUE, FALSE)>>,
      <<BrewfileEntry(2, FALSE, FALSE), BrewfileEntry(4, TRUE, FALSE)>>,
      <<BrewfileEntry(3, FALSE, TRUE)>>,
      <<BrewfileEntry(4, FALSE, TRUE), BrewfileEntry(3, TRUE, FALSE)>> }

\* the documents tap-packages.json can hold
TapDocuments ==
    { NoFile,
      [exists |-> TRUE, data |-> Garbage, mtime |-> 0],
      [exists |-> TRUE, data |-> <<FallbackPackage(3, PackageTypeFormula)>>, mtime |-> 0],
      [exists |-> TRUE, data |-> <<FallbackPackage(4, PackageTypeCask),
                                   InfoPackage(3, TRUE)>>, mtime |-> 0] }

InitTap ==
    \E entries \in TapRequests, document \in TapDocuments, age \in {0, 9, 10},
       catalog \in LoadCatalogs :
        /\ installedFormulae = <<>> /\ remoteFormulae = <<>> /\ formulaeAnalytics = EmptyMap
        /\ installedCasks = <<>> /\ remoteCasks = <<>> /\ caskAnalytics = EmptyMap
        /\ allPackages = catalog
        /\ isLinux = FALSE
        /\ mstage = "tap"
        /\ firstCatalog = <<>>
        /\ cacheFiles = [name \in CacheFileNames |->
                            IF name = cacheFileTapPackages THEN document ELSE NoFile]
        /\ now = age
        /\ lastFetch = NoFetch
        /\ lastWritten = [any |-> FALSE, bytes |-> <<>>, at |-> 0]
        /\ ParseUnused /\ BatchUnused
        /\ brewfilePath = "Brewfile" /\ brewfilePackages = <<>>
        /\ brewfile = [Taps |-> <<"t1">>, Packages |-> entries]
        /\ brewfileTaps = <<"t1">> /\ installedTaps = <<>> /\ tapped = {}
        /\ tapsToInstall = <<>> /\ tapCache = <<>> /\ steps = <<>>
        /\ AppUnused

\* the line of the log for a call of GetTapPackages
TapCall(entries, existingPackages, forceRefresh, brew, r) ==
    [step |-> "GetTapPackages", event |-> IF r.err THEN "failed" ELSE "finished", tap |-> "",
     entries |-> entries, existingPackages |-> existingPackages,
     forceRefresh |-> forceRefresh, brew |-> brew,
     before |-> cacheFiles[cacheFileTapPackages],
     packages |-> r.packages, queries |-> r.queries]

\* tapPackages, _ := s.dataProvider.GetTapPackages(entries, existingPackages,
\* forceRefresh) on the entries of the Brewfile and the catalog
\* (dataprovider.go:1189-1199, 1238-1245)
CallGetTapPackages ==
    \E forceRefresh \in BOOLEAN, brew \in BrewInfoRuns, dirErr \in BOOLEAN,
       writeOk \in BOOLEAN :
        LET existingPackages == ExistingPackages(allPackages)
            r == GetTapPackagesCall(brewfile.Packages, existingPackages, cacheFiles, now,
                                    forceRefresh, brew, dirErr, writeOk)
        IN
        /\ mstage = "tap"
        /\ cacheFiles' = r.files
        /\ steps' = Append(steps, TapCall(brewfile.Packages, existingPackages, forceRefresh,
                                          brew, r))
        /\ mstage' = "tapDone"
        /\ UNCHANGED <<dpDocs, allPackages, isLinux, firstCatalog, now, lastFetch, lastWritten, appVars, parseVars,
                       brewfilePath, brewfilePackages, brewfile, brewfileTaps, installedTaps,
                       tapped, tapsToInstall, tapCache, batchVars>>

NextTapCall == CallGetTapPackages

SpecTap == InitTap /\ [][NextTapCall]_vars

----------------------------------------------------------------------------
(* Properties of the merge                                                 *)

Returned == mstage \in {"merged", "again", "againClean"}

NamesOf(doc) == {doc[i].Name : i \in 1..Len(doc)}

TokensOf(doc) == {doc[i].Token : i \in 1..Len(doc)}

FormulaNamed(doc, n) == doc[CHOOSE i \in 1..Len(doc) : doc[i].Name = n]

CaskNamed(doc, n) == doc[CHOOSE i \in 1..Len(doc) : doc[i].Token = n]

EntriesNamed(n) == {j \in 1..Len(allPackages) : allPackages[j].Name = n}

\* the descriptive fields of a catalog entry are those of formula record f
HasFormulaFields(p, f) ==
    /\ p.DisplayName = f.FullName /\ p.Description = f.Description
    /\ p.Homepage = f.Homepage /\ p.Version = f.Stable
    /\ p.Outdated = f.Outdated
    /\ p.InstalledOnRequest = (IF Len(f.Installed) > 0 THEN f.Installed[1] ELSE FALSE)

\* the descriptive fields of a catalog entry are those of cask record c
HasCaskFields(p, c) ==
    /\ p.DisplayName = (IF Len(c.Name) > 0 THEN c.Name[1] ELSE NameText(c.Token))
    /\ p.Description = c.Description
    /\ p.Homepage = c.Homepage /\ p.Version = c.Version
    /\ p.Outdated = c.Outdated
    /\ p.InstalledOnRequest = TRUE

OneInstalledEntry(n) ==
    /\ Cardinality(EntriesNamed(n)) = 1
    /\ \A j \in EntriesNamed(n) : allPackages[j].LocallyInstalled

\* C1 as stated: for every name in both the installed-formula and the
\* remote-formula list (likewise the installed-cask and the remote-cask list),
\* the catalog GetPackages returns holds one entry for the name, flagged
\* installed, whose descriptive fields are those of the installed record of
\* that pair.
C1_InstalledRecordWins ==
    Returned =>
        \A n \in Names :
            /\ (n \in NamesOf(installedFormulae) /\ n \in NamesOf(remoteFormulae)) =>
                    /\ OneInstalledEntry(n)
                    /\ \A j \in EntriesNamed(n) :
                          HasFormulaFields(allPackages[j], FormulaNamed(installedFormulae, n))
            /\ (n \in TokensOf(installedCasks) /\ n \in TokensOf(remoteCasks)) =>
                    /\ OneInstalledEntry(n)
                    /\ \A j \in EntriesNamed(n) :
                          HasCaskFields(allPackages[j], CaskNamed(installedCasks, n))

\* C1 amended: the same, except that a name which is also the token of an
\* installed cask gets the installed cask's fields and kind, also when the
\* name is in the installed-formula and the remote-formula list.
C1_InstalledRecordWinsUnlessCask ==
    Returned =>
        \A n \in Names :
            /\ (n \in NamesOf(installedFormulae) /\ n \in NamesOf(remoteFormulae)) =>
                    /\ OneInstalledEntry(n)
                    /\ \A j \in EntriesNamed(n) :
                          IF n \in TokensOf(installedCasks)
                          THEN /\ HasCaskFields(allPackages[j], CaskNamed(installedCasks, n))
                               /\ allPackages[j].Type = PackageTypeCask
                          ELSE /\ HasFormulaFields(allPackages[j],
                                                   FormulaNamed(installedFormulae, n))
                               /\ allPackages[j].Type = PackageTypeFormula
            /\ (n \in TokensOf(installedCasks) /\ n \in TokensOf(remoteCasks)) =>
                    /\ OneInstalledEntry(n)
                    /\ \A j \in EntriesNamed(n) :
                          /\ HasCaskFields(allPackages[j], CaskNamed(installedCasks, n))
                          /\ allPackages[j].Type = PackageTypeCask

\* a returned catalog with a formula name in both formula lists whose remote
\* record the platform does not skip
C1_Witness ==
    /\ mstage = "merged"
    /\ \E n \in NamesOf(installedFormulae) \cap NamesOf(remoteFormulae) :
          /\ n \notin TokensOf(installedCasks)
          /\ FormulaNamed(remoteFormulae, n).Requirements = <<>>
          /\ FormulaNamed(remoteFormulae, n).Files = {}
          /\ \E j \in EntriesNamed(n) : allPackages[j].Type = PackageTypeFormula

\* C2: after the boot load, a forced refresh and the tap-package fetch of
\* manifest mode, no two entries of the catalog have the same canonical name.
C2_UniqueNames ==
    \A i, j \in 1..Len(allPackages) :
        i # j => allPackages[i].Name # allPackages[j].Name

\* the catalog entry GetPackages builds from remote formula f
FromRemote(f) ==
    LET p == [Name |-> f.Name, DisplayName |-> f.FullName, Description |-> f.Description,
              Homepage |-> f.Homepage, Version |-> f.Stable, LocallyInstalled |-> FALSE,
              Outdated |-> f.Outdated, Type |-> PackageTypeFormula,
              Analytics90dRank |-> 0, Analytics90dDownloads |-> 0,
              InstalledOnRequest |-> FALSE]
    IN IF f.Name \in DOMAIN formulaeAnalytics /\ formulaeAnalytics[f.Name].Number > 0
       THEN [p EXCEPT !.Analytics90dRank = formulaeAnalytics[f.Name].Number,
                      !.Analytics90dDownloads = Downloads(formulaeAnalytics[f.Name].Count)]
       ELSE p

DeclaresMacos(f) == \E i \in 1..Len(f.Requirements) : f.Requirements[i] = "macos"

BottlesButNoneForLinux(f) ==
    f.Files # {} /\ f.Files \cap {"x86_64_linux", "arm64_linux"} = {}

\* an installed record of the same name takes the entry of the name
Overridden(n) == n \in NamesOf(installedFormulae) \cup TokensOf(installedCasks)

\* C8: on linux the returned catalog holds no entry built from a remote
\* formula that declares a macos requirement, or that has bottle files none
\* of which targets linux (and no entry of that name at all unless an
\* installed record carries the name); every other remote formula, and on
\* the primary platform every remote formula, has an entry under its name,
\* which is the one built from it unless an installed record carries the name.
C8_PlatformFilter ==
    Returned =>
        \A i \in 1..Len(remoteFormulae) :
            LET f == remoteFormulae[i] IN
            IF isLinux /\ (DeclaresMacos(f) \/ BottlesButNoneForLinux(f))
            THEN /\ \A j \in 1..Len(allPackages) : allPackages[j] # FromRemote(f)
                 /\ ~Overridden(f.Name) => EntriesNamed(f.Name) = {}
            ELSE /\ Cardinality(EntriesNamed(f.Name)) = 1
                 /\ ~Overridden(f.Name) =>
                        \A j \in EntriesNamed(f.Name) : allPackages[j] = FromRemote(f)

\* on linux, a catalog returned for documents holding a remote formula with
\* bottles none of which targets linux next to one with a linux bottle
C8_Witness ==
    /\ mstage = "merged" /\ isLinux
    /\ \E i, k \in 1..Len(remoteFormulae) :
          /\ remoteFormulae[i].Requirements = <<>>
          /\ remoteFormulae[i].Files = {"arm64_sonoma"}
          /\ EntriesNamed(remoteFormulae[i].Name) = {}
          /\ remoteFormulae[k].Files = {"arm64_sonoma", "x86_64_linux"}
          /\ EntriesNamed(remoteFormulae[k].Name) # {}

----------------------------------------------------------------------------
(* Properties of the cache                                                 *)

CacheAges == {0, 1, 9, 10, 11, 100}

\* C5: a cache read with maximum age N is a hit exactly when a document has
\* been written and is less than N minutes old, and a hit returns exactly
\* the bytes last written.  A fetch of the installed formulae that may use
\* the cache (maximum age 10) is served from it exactly when the document
\* is less than 10 minutes old: one written 11 minutes before is a miss and
\* brew is run, one written 9 minutes before is a hit and the fetch returns
\* the list decoded from the bytes last written.
C5_CacheTTL ==
    /\ mstage = "cache" =>
         \A N \in CacheAges :
            LET data == readCacheFile(cacheFiles, now, cacheFileInstalled, N) IN
            /\ data.hit <=> (lastWritten.any /\ now - lastWritten.at < N)
            /\ data.hit => data.data = lastWritten.bytes
    /\ (lastFetch.done /\ ~lastFetch.forceRefresh) =>
         /\ ~lastFetch.ran <=> (lastFetch.written /\ lastFetch.age < 10)
         /\ (lastFetch.written /\ lastFetch.age = 11) => lastFetch.ran
         /\ (lastFetch.written /\ lastFetch.age = 9) => ~lastFetch.ran
         /\ ~lastFetch.ran =>
                /\ ~lastFetch.err
                /\ lastFetch.formulae = markFormulaeAsInstalled(lastWritten.bytes)

\* a fetch served from a document written 9 minutes before
C5_Witness ==
    /\ lastFetch.done /\ ~lastFetch.forceRefresh /\ ~lastFetch.ran
    /\ lastFetch.age = 9
    /\ Len(lastFetch.formulae) = 2
    /\ installedFormulae = lastFetch.formulae

----------------------------------------------------------------------------
(* Properties of the query pipeline                                        *)

RanksOf(list) == [i \in 1..Len(list) |-> list[i].Analytics90dRank]

\* C10: with a search text in the field and the sort by type off, the
\* displayed list holds every package with a nonzero popularity rank before
\* every package of rank 0, and the nonzero ranks in ascending order; three
\* matches of ranks 5, 0 and 2 are displayed in the order 2, 5, 0.
C10_RankOrder ==
    (mstage = "query" /\ searchText # "" /\ ~sortByType) =>
        LET rank == RanksOf(filteredPackages) IN
        /\ \A i, j \in 1..Len(rank) :
              i < j => /\ rank[i] = 0 => rank[j] = 0
                       /\ (rank[i] # 0 /\ rank[j] # 0) => rank[i] <= rank[j]
        /\ (Len(rank) = 3 /\ {rank[i] : i \in 1..Len(rank)} = {5, 0, 2}) => rank = <<2, 5, 0>>

\* the catalog lists ranks 5, 0, 2 by name; all three match the text
C10_Witness ==
    /\ mstage = "query" /\ searchText = "NAME" /\ ~sortByType /\ activeFilter = FilterNone
    /\ RanksOf(allPackages) = <<5, 0, 2>>
    /\ RanksOf(filteredPackages) = <<2, 5, 0>>

----------------------------------------------------------------------------
(* Properties of the refresh workers and the control thread                *)

\* the state the worker goroutines share with the control thread
sharedState == <<allPackages, filteredPackages, notification>>

\* both goroutines have run forceRefreshResults to its end and the control
\* thread has applied every update they submitted
BothFinished ==
    /\ \A w \in Workers : pc[w] = "done" /\ cycle[w].submitted
    /\ uiQueue = <<>>

\* C3: while a refresh is running the control thread never reads a partly
\* built catalog: every catalog the queued search reads is the complete
\* catalog of before the refresh or the complete catalog a refresh produced,
\* never an empty, half-filled or partly re-stamped one.
C3_NoPartialRead == ~partialRead

\* C4: a worker goroutine writes the catalog, the displayed list and the
\* notification only inside an update it submitted to the queue of the
\* control thread, and the updates are applied in submission order: every
\* step that changes one of them is the control thread applying the oldest
\* update of the queue.
C4_WritesOnlyInQueuedUpdates == [][sharedState' # sharedState => ApplyUpdate]_vars

C7_LastPublisherWins ==
    BothFinished => allPackages = cycle[lastPublisher].product

----------------------------------------------------------------------------
(* Properties of the filter keys                                           *)

\* the filter key of a step that changes the active filter
FilterKey == IF activeFilter' = FilterNone THEN activeFilter ELSE activeFilter'

\* C11: invoking the same filter action twice in succession returns the
\* active filter to FilterNone from any starting filter state, and at most
\* one filter is active: after every filter action, the same action invoked
\* again leaves FilterNone.
C11_TwiceClears ==
    [][activeFilter' # activeFilter =>
          /\ activeFilter' \in FilterTypes \cup {FilterNone}
          /\ toggleFilter(activeFilter', FilterKey) = FilterNone]_vars

\* C11, amended: the same filter action invoked twice in succession returns
\* the active filter to FilterNone when that filter was not the active one
\* at the start, and to that filter when it was (the first invocation turns
\* it off, the second turns it on again); at most one filter is active.
C11_TwiceClearsUnlessActive ==
    [][activeFilter' # activeFilter =>
          /\ activeFilter' \in FilterTypes \cup {FilterNone}
          /\ toggleFilter(activeFilter', FilterKey) =
                 IF activeFilter = FilterKey THEN FilterKey ELSE FilterNone]_vars

\* the outdated filter is on and hides a package of the catalog
C11_Witness ==
    /\ mstage = "query" /\ activeFilter = FilterOutdated
    /\ Len(filteredPackages) < Len(allPackages)

----------------------------------------------------------------------------
(* Properties of the Brewfile parser                                       *)

----------------------------------------------------------------------------
(* Properties of the batch operations                                      *)

AttemptedNames == [k \in 1..Len(attempted) |-> attempted[k].name]

PackageNames(packages) == [k \in 1..Len(packages) |-> packages[k].Name]

\* the error and success lines of the output log
OutcomeReports == SelectSeq(reports, LAMBDA r : r.tag \in {"ERROR", "SUCCESS"})

\* one line per package executed, an error line when it failed
OneReportEach ==
    OutcomeReports = [k \in 1..Len(attempted) |->
                         [tag |-> IF attempted[k].err THEN "ERROR" ELSE "SUCCESS",
                          name |-> attempted[k].name]]

SkipReports == SelectSeq(reports, LAMBDA r : r.tag = "SKIP")

\* the packages of the list of the batch that have the name
Named(n) == SelectSeq(batch.packages, LAMBDA pkg : pkg.Name = n)

----------------------------------------------------------------------------
(* Properties of the Brewfile packages                                     *)

\* the names of the catalog Boot merged; the documents are Boot's until
\* the goroutine refreshes them
BootNames ==
    PackageNameSet(GetPackages(<<>>, isLinux, installedFormulae, remoteFormulae,
                               formulaeAnalytics, installedCasks, remoteCasks, caskAnalytics))

\* the entries of the Brewfile whose name is not in the catalog Boot merged
AbsentEntries ==
    {i \in 1..Len(brewfile.Packages) : brewfile.Packages[i].Name \notin BootNames}

\* the packages of *s.brewfilePackages that an entry names
ListedFor(entry) ==
    {i \in 1..Len(brewfilePackages) :
        ShortName(brewfilePackages[i].Name) = ShortName(entry.Name)}

\* brew resolves the package of an entry
Resolvable(entry) ==
    ShortName(entry.Name) \in
        (IF entry.IsCask THEN KnownCasks(tapped) ELSE KnownFormulae(tapped))

\* the placeholder load has returned a list and no later step has run
PlaceholdersLoaded ==
    pc["startup"] = "installTaps" /\ steps[Len(steps)] = Finished("loadPlaceholders")

\* the tap fetch and the resolved load have returned and no later step has run
ResolvedLoaded ==
    /\ pc["startup"] = "updateHomeBrew"
    /\ steps[Len(steps) - 2] = Finished("fetchTapPackages")
    /\ steps[Len(steps)] = Finished("loadResolved")

\* C14: for an entry absent from the catalog the placeholder load lists
\* exactly one placeholder, not installed and with the waiting description;
\* after the tap fetch and the resolved load, when brew resolves the entry,
\* the list holds exactly one package for it and that is the fetched one.
C14_PlaceholderThenResolved ==
    /\ PlaceholdersLoaded =>
           \A i \in AbsentEntries :
               LET listed == ListedFor(brewfile.Packages[i]) IN
               /\ Cardinality(listed) = 1
               /\ \A k \in listed :
                      /\ brewfilePackages[k].LocallyInstalled = FALSE
                      /\ brewfilePackages[k].Description = "Waiting for tap installation..."
    /\ ResolvedLoaded =>
           \A i \in AbsentEntries :
               Resolvable(brewfile.Packages[i]) =>
                   LET listed == ListedFor(brewfile.Packages[i]) IN
                   /\ Cardinality(listed) = 1
                   /\ \A k \in listed :
                          brewfilePackages[k].Description \in {"remote desc", "remote cask desc"}

-----------------------------------------------------------------------------
(* Properties of the fetchers                                              *)

\* the fetchers of SetupData, of the shape fetch(forceRefresh) -> (documents, error)
SourceFetchers ==
    {"GetInstalledFormulae", "GetRemoteFormulae", "GetFormulaeAnalytics",
     "GetInstalledCasks", "GetRemoteCasks", "GetCaskAnalytics"}

\* the document the fetch found is missing, expired or cannot be decoded
CacheMiss(fetch) ==
    \/ ~fetch.before.exists
    \/ now - fetch.before.mtime >= fetch.maxAge
    \/ Unmarshal(fetch.before.data).err

\* C15: for every source fetcher, with forceRefresh = true the live query is
\* performed whatever the cache holds; with forceRefresh = false the live
\* query is performed only on a cache miss (a document that is missing,
\* expired or undecodable, or that holds an empty list); and whenever the
\* live query succeeds, the cache document of the source holds the raw bytes
\* of the response, written at the time of the fetch, when the fetcher
\* returns (unless the write itself failed).
C15_RefreshAndWriteBack ==
    (lastFetch.done /\ lastFetch.source \in SourceFetchers) =>
        /\ lastFetch.forceRefresh => lastFetch.ran
        /\ (~lastFetch.forceRefresh /\ lastFetch.ran) =>
               CacheMiss(lastFetch) \/ lastFetch.before.data = <<>>
        /\ (lastFetch.ran /\ lastFetch.liveOk /\ lastFetch.writeOk) =>
               cacheFiles[lastFetch.file] =
                   [exists |-> TRUE, data |-> lastFetch.body, mtime |-> now]

\* C16: for every source fetcher, when the live query is performed and fails
\* the fetcher returns an error and no documents, and the cache document is
\* as it was before the fetch.
C16_LiveFailureIsError ==
    (lastFetch.done /\ lastFetch.source \in SourceFetchers
        /\ lastFetch.ran /\ ~lastFetch.liveOk) =>
        /\ lastFetch.err
        /\ lastFetch.docs \in {<<>>, EmptyMap}
        /\ cacheFiles[lastFetch.file] = lastFetch.before

\* C17: a fetch that may use the cache and finds the document missing,
\* expired or undecodable performs the live query, and it returns an error
\* exactly when the live query failed.
C17_MissFallsThrough ==
    (lastFetch.done /\ ~lastFetch.forceRefresh /\ CacheMiss(lastFetch)) =>
        /\ lastFetch.ran
        /\ lastFetch.source \in SourceFetchers => (lastFetch.err <=> ~lastFetch.liveOk)

-----------------------------------------------------------------------------
(* Properties of Boot                                                      *)

BootLog == {steps[k] : k \in 1..Len(steps)}

\* C18: Boot returns an error only when GetBrewVersion failed or, in
\* Brewfile mode, the Brewfile could not be read.  When the version is
\* detected and a fetch of SetupData fails, the failure is logged and Boot
\* goes on: the catalog and the displayed list are the merge of the source
\* documents that were loaded, and Boot returns nil unless the Brewfile
\* cannot be read.
C18_BootErrors ==
    /\ mstage = "bootError" =>
           \/ BootStep("GetBrewVersion", TRUE) \in BootLog
           \/ brewfilePath # "" /\ BootStep("parseBrewfileWithTaps", TRUE) \in BootLog
    /\ (mstage \in {"booted", "bootError"} /\ BootStep("GetBrewVersion", FALSE) \in BootLog) =>
           /\ allPackages = GetPackages(<<>>, isLinux, installedFormulae, remoteFormulae,
                                        formulaeAnalytics, installedCasks, remoteCasks,
                                        caskAnalytics)
           /\ filteredPackages = allPackages
           /\ (BootStep("SetupData", TRUE) \in BootLog
                 /\ BootStep("parseBrewfileWithTaps", TRUE) \notin BootLog) =>
                  mstage = "booted"

\* Boot has returned nil after a fetch failed, with a catalog merged from
\* the documents loaded before the failure
C18_Witness ==
    /\ mstage = "booted"
    /\ BootStep("SetupData", TRUE) \in BootLog
    /\ allPackages # <<>>
    /\ remoteCasks = <<>>
    /\ brewfilePath # "" /\ brewfileTaps # <<>>

-----------------------------------------------------------------------------
(* Properties of the startup goroutine                                     *)

\* the steps the log shows as started, in the order of their start
StartedSteps ==
    LET started == SelectSeq(steps, LAMBDA e : e.event = "started")
    IN [k \in 1..Len(started) |-> started[k].step]

\* the steps of a manifest: installTaps is a step only with taps declared
ExpectedSteps ==
    IF Len(brewfileTaps) = 0
    THEN SelectSeq(StartupSteps, LAMBDA step : step # "installTaps")
    ELSE StartupSteps

\* the step of log entry k is over at or before entry j
OverBy(k, j) ==
    \E m \in (k + 1)..j : steps[m] \in {Finished(steps[k].step), Skipped(steps[k].step)}

TapAttempts == SelectSeq(steps, LAMBDA e : e.event \in {"installed", "failed"})

\* the reports of the outcome of an installation of tap: the lines of the
\* output view and the updates still queued
TapReports(tap, tag) ==
    Cardinality({k \in 1..Len(reports) : reports[k] = [tag |-> tag, name |-> tap]})
    + Cardinality({k \in 1..Len(uiQueue) :
           /\ uiQueue[k].op = "tap" /\ uiQueue[k].by = tap
           /\ OutputTag(uiQueue[k].text) = tag})

\* the place of tap in the Brewfile
ManifestIndex(tap) ==
    CHOOSE k \in 1..Len(brewfileTaps) :
        /\ brewfileTaps[k] = tap
        /\ \A j \in 1..(k - 1) : brewfileTaps[j] # tap

\* C20: when the installation step is over, every tap that was missing has
\* been attempted exactly once, in the order of the Brewfile, whether or not
\* an earlier attempt failed; every attempt has its own report of success or
\* failure; and s.installedTaps lists exactly the taps whose installation
\* succeeded.
C20_EachTapOnce ==
    (mstage = "manifest" /\ Finished("installTaps") \in BootLog) =>
        LET missing == {tapsToInstall[k] : k \in 1..Len(tapsToInstall)}
            succeeded == {TapAttempts[k].tap :
                             k \in {j \in 1..Len(TapAttempts) :
                                       TapAttempts[j].event = "installed"}}
        IN
        /\ \A tap \in missing :
               Cardinality({k \in 1..Len(TapAttempts) : TapAttempts[k].tap = tap}) = 1
        /\ \A k \in 1..Len(TapAttempts) : TapAttempts[k].tap \in missing
        /\ \A k \in 1..Len(TapAttempts), j \in 1..Len(TapAttempts) :
               k < j => ManifestIndex(TapAttempts[k].tap) < ManifestIndex(TapAttempts[j].tap)
        /\ \A k \in 1..Len(TapAttempts) :
               LET e == TapAttempts[k] IN
               /\ TapReports(e.tap, IF e.event = "failed" THEN "ERROR" ELSE "SUCCESS") = 1
               /\ TapReports(e.tap, IF e.event = "failed" THEN "SUCCESS" ELSE "ERROR") = 0
        /\ {installedTaps[k] : k \in 1..Len(installedTaps)} = succeeded
        /\ Len(installedTaps) = Cardinality(succeeded)

-----------------------------------------------------------------------------
(* Properties of loadBrewfilePackages                                      *)

\* the call has returned nil
Loaded == mstage = "loaded" /\ steps[Len(steps)].event = "finished"

LastCall == steps[Len(steps)]

\* the packages of the catalog that an entry of the Brewfile names with
\* their type, the type of a name being that of its last entry
CatalogMatches ==
    LET types == brewfilePackageMap(brewfile.Packages)
    IN SelectSeq(allPackages, LAMBDA pkg :
           IF pkg.Name \in DOMAIN types THEN types[pkg.Name] = pkg.Type ELSE FALSE)

\* C21: after a successful loadBrewfilePackages, with or without
\* placeholders, the names of *s.brewfilePackages are strictly ascending:
\* no name is listed twice and the list is sorted by name; of the packages
\* of one name the first is kept, a package of the catalog before any other.
C21_UniqueSorted ==
    Loaded =>
        /\ \A i \in 1..Len(brewfilePackages), j \in 1..Len(brewfilePackages) :
               i < j => brewfilePackages[i].Name < brewfilePackages[j].Name
        /\ \A k \in 1..Len(CatalogMatches) :
               (\A j \in 1..(k - 1) : CatalogMatches[j].Name # CatalogMatches[k].Name) =>
                   \E i \in 1..Len(brewfilePackages) :
                       brewfilePackages[i] =
                           [CatalogMatches[k] EXCEPT
                               !.LocallyInstalled = brewfilePackages[i].LocallyInstalled]

\* a resolved load of a Brewfile that names formula 3 by its name and by its
\* full name has listed it once
C21_Witness ==
    /\ Loaded /\ ~LastCall.usePlaceholders
    /\ Len(brewfile.Packages) = 2
    /\ Len(brewfilePackages) = 1 /\ brewfilePackages[1].Name = 3
    /\ brewfilePackages[1].Description = "remote desc"

\* the kind an entry of the Brewfile declares
EntryKind(entry) ==
    IF entry.IsFlatpak THEN PackageTypeFlatpak
    ELSE IF entry.IsCask THEN PackageTypeCask ELSE PackageTypeFormula

\* the kinds the Brewfile declares for name
DeclaredKinds(name) ==
    {EntryKind(brewfile.Packages[k]) :
        k \in {j \in 1..Len(brewfile.Packages) : brewfile.Packages[j].Name = name}}

\* pkg is a package of the catalog, whatever its installed flag
FromCatalog(pkg) ==
    \E k \in 1..Len(allPackages) :
        pkg = [allPackages[k] EXCEPT !.LocallyInstalled = pkg.LocallyInstalled]

\* C22: after loadBrewfilePackages, with or without placeholders, a listed
\* package that is a package of the catalog and whose name the Brewfile
\* declares as formula or cask only has a kind the Brewfile declares for
\* that name: a cask entry is not resolved to the catalog formula of its
\* name, nor a formula entry to the catalog cask.
C22_NameAndKind ==
    Loaded =>
        \A i \in 1..Len(brewfilePackages) :
            LET pkg == brewfilePackages[i] IN
            (FromCatalog(pkg) /\ PackageTypeFlatpak \notin DeclaredKinds(pkg.Name)) =>
                pkg.Type \in DeclaredKinds(pkg.Name)


\* C23: after loadBrewfilePackages, every formula or cask package of the
\* Brewfile list has its installed flag equal to the membership of its name
\* in the names `brew list` gave for its kind during that call, whatever
\* flag the catalog, the tap cache or the placeholder carried.
C23_InstalledFromBrewList ==
    Loaded =>
        \A i \in 1..Len(brewfilePackages) :
            LET pkg == brewfilePackages[i] IN
            /\ pkg.Type = PackageTypeCask =>
                   pkg.LocallyInstalled = (pkg.Name \in brewCasks)
            /\ pkg.Type = PackageTypeFormula =>
                   pkg.LocallyInstalled = (pkg.Name \in brewFormulae)

\* a load that listed a catalog package with the opposite of the flag the
\* catalog carries, and a package of the tap cache likewise
C23_Witness ==
    /\ Loaded
    /\ \E i \in 1..Len(brewfilePackages), k \in 1..Len(allPackages) :
           /\ allPackages[k].Name = brewfilePackages[i].Name
           /\ allPackages[k].Type = brewfilePackages[i].Type
           /\ allPackages[k].LocallyInstalled
           /\ ~brewfilePackages[i].LocallyInstalled
    /\ \E i \in 1..Len(brewfilePackages) :
           /\ brewfilePackages[i].Name \in DOMAIN LastCall.cached
           /\ LastCall.cached[brewfilePackages[i].Name].LocallyInstalled
                  # brewfilePackages[i].LocallyInstalled


\* C24: a name the Brewfile declares as flatpak only is listed, if at all,
\* as the package of kind flatpak the Flatpak lookup gave: it is not
\* listed as a catalog formula or cask, nor as a formula or cask
\* placeholder, nor as a package of the tap path, and it is listed at most
\* once.
C24_FlatpakOnlyThroughFlatpak ==
    Loaded =>
        \A i \in 1..Len(brewfilePackages) :
            LET pkg == brewfilePackages[i] IN
            DeclaredKinds(pkg.Name) = {PackageTypeFlatpak} =>
                /\ pkg.Type = PackageTypeFlatpak
                /\ \A j \in 1..Len(brewfilePackages) :
                       brewfilePackages[j].Name = pkg.Name => j = i


\* C25: on Linux the catalog GetPackages has merged holds no package of
\* kind cask, whatever the installed-cask and remote-cask documents hold.
C25_NoCaskOnLinux ==
    (Returned /\ isLinux) =>
        \A i \in 1..Len(allPackages) : allPackages[i].Type # PackageTypeCask


-----------------------------------------------------------------------------
(* Properties of the refresh                                               *)

\* the fetches of the SetupData call forceRefreshResults has made
RefreshFetches == SelectSeq(steps, LAMBDA s : s.step = "SetupData" /\ s.forceRefresh)

InstalledSources == {"GetInstalledFormulae", "GetInstalledCasks"}

\* C26: the refresh after an install, update or remove queries the
\* installed formulae and the installed casks live, and serves the remote
\* formulae, the remote casks and the two analytics documents from the
\* cache whenever their cache documents are fresh (present, not expired,
\* decodable and not empty).
C26_OnlyInstalledForced ==
    mstage = "refreshed" =>
        \A k \in 1..Len(RefreshFetches) :
            LET fetch == RefreshFetches[k] IN
            IF fetch.source \in InstalledSources
            THEN fetch.event # "cache"
            ELSE (~CacheMiss(fetch) /\ fetch.before.data # <<>>) => fetch.event = "cache"


-----------------------------------------------------------------------------
(* Properties of GetTapPackages                                            *)

\* the names of the cache document a call can use
UsableCache(call) ==
    IF /\ ~call.forceRefresh /\ call.before.exists
       /\ now - call.before.mtime < tapMaxAge
       /\ ~Unmarshal(call.before.data).err
    THEN {call.before.data[k].Name : k \in 1..Len(call.before.data)}
    ELSE {}

CachedPackage(call, name) ==
    call.before.data[CHOOSE k \in 1..Len(call.before.data) : call.before.data[k].Name = name]

\* brew answers a query for the entry, alone or with others
Answers(call, entry) ==
    /\ ShortName(entry.Name) \in
           (IF entry.IsCask THEN call.brew.casks ELSE call.brew.formulae)
    /\ ~(call.brew.batchErr /\ call.brew.singleErr)

\* the package the call owes the entry
Owed(call, entry) ==
    IF entry.Name \in DOMAIN call.existingPackages THEN call.existingPackages[entry.Name]
    ELSE IF entry.Name \in UsableCache(call) THEN CachedPackage(call, entry.Name)
    ELSE IF Answers(call, entry) THEN InfoPackage(entry.Name, entry.IsCask)
    ELSE FallbackPackage(entry.Name, EntryKind(entry))

\* the names of the entries of the kind (cask or not) the call has to query
ToQuery(call, isCask) ==
    EntryNames(SelectSeq(call.entries, LAMBDA entry :
        /\ entry.IsCask = isCask
        /\ entry.Name \notin DOMAIN call.existingPackages \cup UsableCache(call)))

QueriesOf(call, isCask) == SelectSeq(call.queries, LAMBDA q : q.isCask = isCask)

\* C27: GetTapPackages returns without error one package per requested
\* entry: the known package of the name, else the package of the usable
\* cache, else the package brew prints, else the info-unavailable
\* placeholder of the entry's kind; the names queried are those in
\* neither the known packages nor the usable cache, and a query for all
\* names that fails is followed by one query per name.
C27_OnePackagePerEntry ==
    (mstage = "tapDone") =>
        LET call == steps[Len(steps)]
            n == Len(call.entries)
        IN /\ call.event = "finished"
           /\ Len(call.packages) = n
           /\ \E p \in [1..n -> 1..n] :
                  /\ \A i, j \in 1..n : p[i] = p[j] => i = j
                  /\ \A i \in 1..n : call.packages[p[i]] = Owed(call, call.entries[i])
           /\ \A isCask \in BOOLEAN :
                  LET names == ToQuery(call, isCask)
                      queries == QueriesOf(call, isCask)
                  IN IF names = <<>> THEN queries = <<>>
                     ELSE /\ queries[1].names = names
                          /\ IF call.brew.batchErr
                             THEN queries = <<queries[1]>> \o
                                      [k \in 1..Len(names) |->
                                          [names |-> <<names[k]>>, isCask |-> isCask]]
                             ELSE Len(queries) = 1

\* the same for the calls whose entries are formulae and casks
BrewEntriesServed ==
    (mstage = "tapDone" /\ \A i \in 1..Len(brewfile.Packages) : ~brewfile.Packages[i].IsFlatpak)
        => C27_OnePackagePerEntry


-----------------------------------------------------------------------------
(* Properties of the refresh cycle                                         *)

\* the stage of the refresh cycle of worker w: Fetching is SetupData,
\* Merging is GetPackages and the re-stamping, Published is the re-query
\* submitted
Stage(w) ==
    CASE pc[w] = "SetupData" -> "Fetching"
      [] pc[w] \in {"GetPackages", "append", "sort", "FetchInstalledNames", "restamp",
                    "copy", "QueueUpdateDraw"} -> "Merging"
      [] pc[w] = "done" /\ cycle[w].submitted -> "Published"
      [] OTHER -> "Idle"

\* the re-queries worker w has submitted that the control thread has not applied
Submitted(w) == Len(SelectSeq(uiQueue, LAMBDA u : u = Requery(w)))

\* C28: every refresh cycle that has started (forceRefreshResults is
\* entered) goes on to merge and then to submit its re-query to the control
\* thread, whether or not a fetch of SetupData failed, given that every
\* goroutine that can take a step takes one.
C28_CycleCompletes ==
    \A w \in Workers : (Stage(w) = "Fetching") ~> (Stage(w) = "Published")

\* the order of the stages: a cycle merges only after it has fetched, is
\* published only after it has merged, and holds at most one re-query in
\* the queue
StagesInOrder ==
    \A w \in Workers :
        /\ Stage(w) = "Merging" => ~cycle[w].submitted
        /\ cycle[w].submitted => cycle[w].merged /\ Stage(w) = "Published"
        /\ Submitted(w) <= 1
        /\ Submitted(w) = 1 => cycle[w].submitted


-----------------------------------------------------------------------------
(* Properties of the order of the catalog                                  *)

\* C29: the catalog GetPackages returns is sorted by name in ascending
\* order, whatever the six documents hold.
C29_SortedByName ==
    Returned =>
        \A i, j \in 1..Len(allPackages) :
            i < j => allPackages[i].Name <= allPackages[j].Name

\* a catalog returned in which a cask precedes a formula, although the
\* formulae are put into the map before the casks
C29_Witness ==
    /\ Returned
    /\ \E i, j \in 1..Len(allPackages) :
           /\ i < j
           /\ allPackages[i].Type = PackageTypeCask
           /\ allPackages[j].Type = PackageTypeFormula


-----------------------------------------------------------------------------
(* Properties of applyFilter                                               *)

\* the package passes the filter
Passes(info, filter) ==
    /\ filter = FilterInstalled => info.LocallyInstalled
    /\ filter = FilterOutdated => info.LocallyInstalled /\ info.Outdated
    /\ filter = FilterLeaves => info.LocallyInstalled /\ info.InstalledOnRequest
    /\ filter = FilterCasks => info.Type = PackageTypeCask

\* the place of the package in the catalog, whose names are distinct
PlaceOf(info) == CHOOSE k \in 1..Len(allPackages) : allPackages[k] = info

\* the list shown holds the packages of the catalog that pass the active
\* filter, each once, in the order of the catalog
ShownIsFiltered ==
    /\ \A i \in 1..Len(filteredPackages) :
           /\ \E k \in 1..Len(allPackages) : allPackages[k] = filteredPackages[i]
           /\ Passes(filteredPackages[i], activeFilter)
    /\ \A k \in 1..Len(allPackages) :
           Passes(allPackages[k], activeFilter) =>
               \E i \in 1..Len(filteredPackages) : filteredPackages[i] = allPackages[k]
    /\ \A i, j \in 1..Len(filteredPackages) :
           i < j => PlaceOf(filteredPackages[i]) < PlaceOf(filteredPackages[j])

\* C30: applyFilter returns the packages of the source list that pass the
\* active filter (all for none, installed, installed and outdated,
\* installed and installed on request, kind cask), in the order of the
\* source list, and leaves the source list as it was.
C30_FilterExact == [][ShownIsFiltered' /\ allPackages' = allPackages]_vars

\* the outdated filter is active on a catalog of an outdated package that
\* is not installed before an outdated package that is, and the leaves
\* filter on a catalog of two installed packages of which the second is
\* installed on request
C30_Witness ==
    /\ mstage = "filter" /\ Len(allPackages) = 2 /\ Len(filteredPackages) = 1
    /\ filteredPackages[1] = allPackages[2]
    /\ \/ /\ activeFilter = FilterOutdated
          /\ allPackages[1].Outdated /\ ~allPackages[1].LocallyInstalled
       \/ /\ activeFilter = FilterLeaves
          /\ allPackages[1].LocallyInstalled /\ ~allPackages[1].InstalledOnRequest

----------------------------------------------------------------------------
(* The result of a query against its source list                          *)

\* the text occurs in the string when letter case is ignored
ContainsFold(string, text) ==
    LET s == Chars(string)
        t == Chars(text)
    IN \E i \in 0..(Len(s) - Len(t)) :
           \A k \in 1..Len(t) : ToLowerChar(s[i + k]) = ToLowerChar(t[k])

\* the packages of the source list that pass the active filter
FilteredSource == applyFilter(allPackages, activeFilter)

\* the filtered packages whose name or description contains the search text
TextMatches ==
    {FilteredSource[i] : i \in {j \in 1..Len(FilteredSource) :
        \/ ContainsFold(NameText(FilteredSource[j].Name), searchText)
        \/ ContainsFold(FilteredSource[j].Description, searchText)}}

\* C31: with an empty search text and the sort by kind off the result is the
\* filtered source list, same elements in the same order; with a search text
\* the result holds exactly the filtered packages whose name or description
\* contains the text whatever the letter case, each name at most once
C31_QueryResult ==
    /\ (searchText = "" /\ ~sortByType) => filteredPackages = FilteredSource
    /\ searchText # "" =>
          /\ {filteredPackages[i] : i \in 1..Len(filteredPackages)} = TextMatches
          /\ \A i, j \in 1..Len(filteredPackages) :
                 filteredPackages[i].Name = filteredPackages[j].Name => i = j

\* a search text found in the descriptions only has selected some packages
\* of the filtered list and left out others
C31_Witness ==
    /\ mstage = "query"
    /\ searchText = "Cask"
    /\ filteredPackages # <<>>
    /\ Len(filteredPackages) < Len(FilteredSource)
    /\ \A i \in 1..Len(filteredPackages) :
           ~ContainsFold(NameText(filteredPackages[i].Name), searchText)

\* the filtered source list has come back unchanged with a filter active
C31_WitnessEmptyText ==
    /\ mstage = "query"
    /\ searchText = "" /\ ~sortByType /\ activeFilter # FilterNone
    /\ filteredPackages # <<>>
    /\ Len(filteredPackages) < Len(allPackages)

----------------------------------------------------------------------------
(* The final order of a query result                                      *)

\* the place of a kind in the ascending order of the kinds, which are
\* compared as strings
KindPlace(type) ==
    CASE type = PackageTypeCask -> 1
      [] type = PackageTypeFlatpak -> 2
      [] type = PackageTypeFormula -> 3

\* the list is in ascending order of kind and, within a kind, of name
InKindOrder(list) ==
    \A i, j \in 1..Len(list) :
        i < j => \/ KindPlace(list[i].Type) < KindPlace(list[j].Type)
                 \/ /\ list[i].Type = list[j].Type
                    /\ list[i].Name <= list[j].Name

\* the list is in rank order: ranked packages by ascending rank, then the
\* packages without rank
InRankOrder(list) ==
    \A i, j \in 1..Len(list) :
        i < j => \/ list[j].Analytics90dRank = 0
                 \/ /\ list[i].Analytics90dRank # 0
                    /\ list[i].Analytics90dRank <= list[j].Analytics90dRank

C32_WitnessEmptyText ==
    /\ mstage = "query" /\ sortByType /\ searchText = ""
    /\ Len(filteredPackages) = 3
    /\ filteredPackages[1].Name > filteredPackages[2].Name

-----------------------------------------------------------------------------
(* Properties of SetupData                                                 *)

\* the fetches of the SetupData call a step has made
NewFetches == SubSeq(steps', Len(steps) + 1, Len(steps'))

\* the in-memory document of a source
Document(source) ==
    CASE source = "GetInstalledFormulae" -> installedFormulae
      [] source = "GetRemoteFormulae" -> remoteFormulae
      [] source = "GetFormulaeAnalytics" -> formulaeAnalytics
      [] source = "GetInstalledCasks" -> installedCasks
      [] source = "GetRemoteCasks" -> remoteCasks
      [] OTHER -> caskAnalytics

\* the fetches before the first failure have replaced their documents, the
\* failing fetch is the last and is reported as an error, and the documents
\* from the failing source on are the old ones
StopsAtFirstFailure ==
    LET fetches == NewFetches
        failed == {k \in 1..Len(fetches) : fetches[k].liveFailed}
        last == IF failed = {} THEN Len(FetchOrder)
                ELSE (CHOOSE k \in failed : \A l \in failed : k <= l) - 1
    IN /\ Len(fetches) = IF failed = {} THEN Len(FetchOrder) ELSE last + 1
       /\ \A k \in 1..Len(fetches) : fetches[k].source = FetchOrder[k]
       /\ \A k \in 1..Len(fetches) : (fetches[k].event = "failed") = (k > last)
       /\ \A k \in 1..Len(FetchOrder) :
              Document(FetchOrder[k])' = IF k <= last /\ k <= Len(fetches)
                                         THEN fetches[k].docs
                                         ELSE Document(FetchOrder[k])

\* C34: SetupData fetches the six sources in the fixed order and stops at
\* the first one that fails: it returns an error for that source, the
\* documents of the sources before it hold their newly fetched values, and
\* the documents of the failing source and of all later sources are left
\* unchanged
C34_StopsAtFirstFailure == [][StopsAtFirstFailure]_vars

-----------------------------------------------------------------------------
(* Precedence in the merge between a formula and a cask of one name        *)

\* the name is carried by a formula record and by a cask record
SharedName(n) ==
    /\ n \in NamesOf(installedFormulae) \cup NamesOf(remoteFormulae)
    /\ n \in TokensOf(installedCasks) \cup TokensOf(remoteCasks)

\* the entries of the name are the one entry of the record that comes first
\* in the order installed cask, installed formula, remote formula, remote
\* cask among the four documents given
ChosenByPrecedence(n, iC, iF, rF, rC) ==
    /\ Cardinality(EntriesNamed(n)) = 1
    /\ \A j \in EntriesNamed(n) :
          LET p == allPackages[j] IN
          IF n \in TokensOf(iC)
          THEN /\ p.Type = PackageTypeCask /\ p.LocallyInstalled
               /\ HasCaskFields(p, CaskNamed(iC, n))
          ELSE IF n \in NamesOf(iF)
          THEN /\ p.Type = PackageTypeFormula /\ p.LocallyInstalled
               /\ HasFormulaFields(p, FormulaNamed(iF, n))
          ELSE IF n \in NamesOf(rF)
          THEN /\ p.Type = PackageTypeFormula /\ ~p.LocallyInstalled
               /\ HasFormulaFields(p, FormulaNamed(rF, n))
          ELSE /\ p.Type = PackageTypeCask /\ ~p.LocallyInstalled
               /\ HasCaskFields(p, CaskNamed(rC, n))

\* C37 as stated: when a formula and a cask share a name, the catalog holds
\* exactly one entry for the name, that of the installed cask, else of the
\* installed formula, else of the remote formula, else of the remote cask
C37_OneEntryByPrecedence ==
    Returned =>
        \A n \in Names :
            SharedName(n) =>
                ChosenByPrecedence(n, installedCasks, installedFormulae,
                                   remoteFormulae, remoteCasks)

\* the remote records the merge admits on the platform: on linux no remote
\* cask and no remote formula that the platform filter skips
AdmittedFormulae ==
    SelectSeq(remoteFormulae, LAMBDA f : ~(isLinux /\ (DeclaresMacos(f) \/ BottlesButNoneForLinux(f))))

AdmittedCasks == IF isLinux THEN <<>> ELSE remoteCasks

\* C37 amended: the same over the records the merge admits; a shared name
\* that no admitted record carries has no entry
C37_OneEntryAmongAdmitted ==
    Returned =>
        \A n \in Names :
            SharedName(n) =>
                IF n \in TokensOf(installedCasks) \cup NamesOf(installedFormulae)
                          \cup NamesOf(AdmittedFormulae) \cup TokensOf(AdmittedCasks)
                THEN ChosenByPrecedence(n, installedCasks, installedFormulae,
                                        AdmittedFormulae, AdmittedCasks)
                ELSE EntriesNamed(n) = {}

\* a name carried by a remote formula and a remote cask only has the entry of
\* the remote formula
C37_Witness ==
    /\ mstage = "merged" /\ ~isLinux
    /\ \E n \in Names :
          /\ n \in NamesOf(remoteFormulae) \cap TokensOf(remoteCasks)
          /\ n \notin NamesOf(installedFormulae) \cup TokensOf(installedCasks)
          /\ \E j \in EntriesNamed(n) : allPackages[j].Type = PackageTypeFormula

\* a name carried by an installed formula and an installed cask has the
\* entry of the cask
C37_WitnessInstalled ==
    /\ mstage = "merged"
    /\ \E m \in Names :
          /\ m \in NamesOf(installedFormulae) \cap TokensOf(installedCasks)
          /\ \E j \in EntriesNamed(m) : allPackages[j].Type = PackageTypeCask

-----------------------------------------------------------------------------
(* Properties of the re-parse of the Brewfile in a refresh                 *)

\* the refresh a step has run has logged that call could not read the
\* Brewfile
ReadFailedIn(call) ==
    \E k \in 1..Len(NewFetches) : NewFetches[k] = Reparse(call, TRUE)

\* the refresh has returned and has submitted its search
RefreshReturned ==
    /\ pc'["startup"] = "done"
    /\ uiQueue' = Append(uiQueue, Requery("startup"))

ReparseFails ==
    /\ ReadFailedIn("loadBrewfilePackages") =>
          /\ brewfilePackages' = brewfilePackages
          /\ brewfileTaps' = brewfileTaps
          /\ RefreshReturned
    /\ ReadFailedIn("fetchTapPackages") =>
          /\ allPackages' = allPackages
          /\ RefreshReturned
    /\ (ReadFailedIn("loadBrewfilePackages") /\ ReadFailedIn("fetchTapPackages")) =>
          tapCache' = tapCache

\* C33: a call of loadBrewfilePackages or fetchTapPackages in a refresh that
\* cannot read the Brewfile changes nothing: the manifest package list and
\* the stored tap list, which loadBrewfilePackages writes, and the catalog,
\* which fetchTapPackages writes, keep their contents, and the refresh goes
\* on to its end
C33_FailedReparseChangesNothing == [][ReparseFails]_vars

\* a refresh in which both calls could not read the Brewfile has ended with
\* a manifest package list and a tap list that are not empty
C33_Witness ==
    /\ mstage = "manifest" /\ pc["startup"] = "done"
    /\ Len(steps) >= 3
    /\ steps[Len(steps) - 1] = Reparse("loadBrewfilePackages", TRUE)
    /\ steps[Len(steps) - 2] = Reparse("fetchTapPackages", TRUE)
    /\ brewfilePackages # <<>> /\ brewfileTaps # <<>> /\ allPackages # <<>>

-----------------------------------------------------------------------------
(* Properties of the refresh after an operation                            *)

\* the goroutine of the install has run `brew install` to its end
InstallCompleted == pc["install"] \notin {"idle", "ShowWarning", "InstallPackage"}

\* the goroutine of the install has entered forceRefreshResults
RefreshStarted == Stage("install") # "Idle" \/ pc["install"] = "panic"

\* C35: every install, update or remove that has run to completion, whether
\* it succeeded or failed, is eventually followed by a refresh of the
\* catalog; here the install of the package of one row
C35_RefreshFollows == InstallCompleted ~> RefreshStarted

-----------------------------------------------------------------------------
(* Properties of the table and the filtered list                           *)

\* the reads the key handler has made
KeyReads == SelectSeq(steps, LAMBDA s : s.step = "handleInstallPackageEvent")

\* C36: whenever the control thread can handle a key or a selection event,
\* the filtered list has one entry for every data row of the table, in the
\* order of the rows, and the read of the handler for a row is in bounds
\* and yields the package the row shows, also while a refresh is running
C36_ListMatchesTable ==
    mstage \in {"rows", "typed", "written", "applied", "panic"} =>
        /\ Len(filteredPackages) = Len(TableRows)
        /\ \A r \in 1..Len(TableRows) : filteredPackages[r].Name = TableRows[r].Name
        /\ \A k \in 1..Len(KeyReads) :
               KeyReads[k].event = "read" /\ KeyReads[k].info = KeyReads[k].shown


----------------------------------------------------------------------------
(* Properties of the confirmation modal                                    *)

\* the packages an operation holds
Held(operation) == {operation.packages[k] : k \in 1..Len(operation.packages)}

\* the goroutine of the operation is running
WorkerRuns(operation) == operation.stage \in {"loop", "command"}

\* a step runs a brew command only in the goroutine of a confirmed
\* operation, on a package that operation holds
CommandOfConfirmed ==
    attempted' # attempted =>
        /\ batch.confirmed /\ WorkerRuns(batch)
        /\ Len(attempted') = Len(attempted) + 1
        /\ LET n == attempted'[Len(attempted')].name
           IN IF batch.op = "updateAll" THEN n = 0
              ELSE \E pkg \in Held(batch) : pkg.Name = n

\* a goroutine starts only when the open modal is confirmed, for the
\* operation of that modal
WorkerOfConfirmed ==
    /\ WorkerRuns(batch') => batch'.confirmed
    /\ (batch'.confirmed /\ ~batch.confirmed) =>
           /\ batch.stage = "modal"
           /\ batch'.op = batch.op /\ batch'.install = batch.install

\* the cancel button: no command, no goroutine, the lists and the marks
\* as they were
CancelChangesNothing ==
    (batch.stage = "modal" /\ batch'.stage = "idle") =>
        /\ ~WorkerRuns(batch')
        /\ UNCHANGED <<allPackages, filteredPackages, brewfilePackages, selectedRows,
                       attempted, reports>>

\* from the opening of the modal to the end of the operation, the
\* operation holds the packages the modal was opened with
KeepsCaptured ==
    (batch.stage # "idle" /\ batch'.stage # "idle") =>
        /\ Held(batch') = Held(batch)
        /\ batch'.op = batch.op

\* C38: no install, update, remove or update-all command runs unless the
\* user has confirmed the modal opened for that operation; cancelling the
\* modal runs nothing, starts no goroutine and leaves the catalog, the
\* filtered list and the marked rows unchanged; and a batch operates on the
\* packages captured when its modal was opened, not on what the list holds
\* when the modal is confirmed.
C38_OnlyConfirmedRuns ==
    [][CommandOfConfirmed /\ WorkerOfConfirmed /\ CancelChangesNothing /\ KeepsCaptured]_vars

\* a batch over marked rows has ended whose list was replaced while its
\* modal was open: it has executed the packages it held, which are not the
\* packages of the list
C38_Witness ==
    /\ batch.stage = "done" /\ batch.op = "selected" /\ batch.confirmed
    /\ mstage = "batchRefreshed"
    /\ Held(batch) \cap {filteredPackages[k] : k \in 1..Len(filteredPackages)} = {}
    /\ {attempted[k].name : k \in 1..Len(attempted)} = {pkg.Name : pkg \in Held(batch)}
    /\ Len(attempted) >= 2

\* a modal was opened over marked rows and cancelled after the list was
\* replaced under it
C38_WitnessCancelled ==
    /\ batch = NoBatch /\ mstage = "batchRefreshed"
    /\ attempted = <<>> /\ reports = <<>>


----------------------------------------------------------------------------
(* Properties of the Brewfile batches                                      *)

\* the packages of the Brewfile batch that it has to attempt, in the
\* order of its list
Actionable == SelectSeq(batch.packages, LAMBDA pkg : ~skipCondition(batch, pkg))

\* C39: the install all and remove all operations do nothing outside
\* Brewfile mode, open no modal when no package of the Brewfile is
\* actionable, never install a package whose installed flag is set nor
\* remove one whose flag is clear, report such packages as skipped, and
\* attempt every other package of the Brewfile exactly once.
C39_ManifestBatch ==
    batch.op = "brewfile" =>
        /\ brewfilePath # ""
        /\ Actionable # <<>>
        /\ \A k \in 1..Len(attempted) :
               \E pkg \in Held(batch) :
                   pkg.Name = attempted[k].name /\ pkg.LocallyInstalled # batch.install
        /\ batch.stage = "done" =>
               /\ {SkipReports[k].name : k \in 1..Len(SkipReports)} =
                      {pkg.Name : pkg \in Held(batch) \ {Actionable[k] : k \in 1..Len(Actionable)}}
               /\ \A pkg \in Held(batch) :
                      ~skipCondition(batch, pkg) =>
                          Cardinality({k \in 1..Len(attempted) :
                                           attempted[k].name = pkg.Name}) = 1

====
